---- MODULE Spec2Model ----
(***************************************************************************)
(* State-machine model of the Etekcity scale driver.                       *)
(*                                                                         *)
(* Spec: the GATT session (EtekcitySmartFitnessScale in                    *)
(* etekcity_esf551_ble/parser.py).  The session runs on one asyncio event  *)
(* loop: code between two awaits is one atomic step.  Every advertisement  *)
(* callback is its own task; a task is suspended at the lock, at           *)
(* establish_connection and at each GATT operation of the configure        *)
(* sequence.  The transport is modelled by the set of live connection      *)
(* handles and the set of handles with an active notification              *)
(* subscription.                                                           *)
(*                                                                         *)
(* SpecCodec: the two frame decoders, parse (parser.py) and                *)
(* _parse_mfr_06d0 (etekcity_fit8s_ble/adv_reader.py), applied to one      *)
(* payload.                                                                *)
(*                                                                         *)
(* SpecStab: the detection callback of listen_advertisements               *)
(* (adv_reader.py), one step per advertisement, with its per-address       *)
(* dictionaries.                                                           *)
(***************************************************************************)
EXTENDS Integers, Sequences, FiniteSets, TLC

(* ---------------------------- bounds ---------------------------------- *)
MaxTasks == 2
MaxConnects == 2
MaxUnitByte == 3
MaxFrameLen == 23
MaxClock == 2
MaxRepeat == 11
MaxOtherRepeat == 1
MaxListeners == 2

(* ------------------------- program constants -------------------------- *)
DISCONNECTED == 0
CONNECTING == 1
CONNECTED == 2

KG == 0
LB == 1
ST == 2

\* Python's None for the integer-valued attributes (_display_unit, _client).
None == -1
\* Python's None for the string-valued attributes (_hw_version, _sw_version).
NoneStr == "None"

WeightUnit == {KG, LB, ST}

\* listen_advertisements: stable_repeats, and min_emit_interval_s = 1.0 in
\* ticks of the clock, which counts whole seconds.
stable_repeats == 10
min_emit_interval == 1

Tasks == 1..MaxTasks
ClientIds == 1..MaxConnects

\* ble_device.address of an advertisement: the session's address or another.
Addresses == {"self", "other"}
address == "self"

\* Values a revision characteristic can decode to.
HwValues == {"", "hw1"}
SwValues == {"sw1", "sw2"}

(* ------------------------------ frames -------------------------------- *)
\* payload[i] with Python's 0-based index.
Byte(payload, i) == payload[i + 1]

\* payload[a:b]
Slice(payload, a, b) == [k \in 1..(b - a) |-> payload[a + k]]

RECURSIVE Pow2Mod1000(_)
Pow2Mod1000(s) == IF s = 0 THEN 1 ELSE (2 * Pow2Mod1000(s - 1)) % 1000

RECURSIVE Pow2(_)
Pow2(n) == IF n = 0 THEN 1 ELSE 2 * Pow2(n - 1)

\* floor(log2(w / 1000)) + 10 for 1 <= w < 2^24 (the offset keeps it >= 0).
RECURSIVE Log2Off(_, _)
Log2Off(w, k) ==
    IF k = 0 THEN 0
    ELSE IF (IF k >= 10 THEN Pow2(k - 10) * 1000 <= w
                        ELSE 1000 <= w * Pow2(10 - k))
         THEN k
         ELSE Log2Off(w, k - 1)

\* A conversion to hundredths that truncates.
round2_mut(weight) == weight \div 10

\* round(float(weight) / 1000, 2), in hundredths of a kilogram.  Off a
\* decimal tie the result is the nearest hundredth.  On a tie (weight % 10
\* = 5) Python rounds the exact value of the binary64 quotient: to even when
\* the quotient is exact, otherwise to the side the quotient's
\* representation error falls on, which is the remainder of
\* weight * 2^s modulo 1000 for the quotient's scaling exponent s.
round2(weight) ==
    IF weight % 10 # 5 THEN (weight + 5) \div 10
    ELSE LET s == 52 - (Log2Off(weight, 24) - 10)
             r == ((weight % 1000) * Pow2Mod1000(s)) % 1000
             q == weight \div 10
         IN  IF r = 0 THEN (IF q % 2 = 0 THEN q ELSE q + 1)
             ELSE IF r > 500 THEN q + 1 ELSE q

\* The dict returned by parse is a function from its keys; None is the
\* function with no key (both are falsy in `if data := parse(payload)`).
NoData == [k \in {} |-> 0]

\* A parse that does not test the validity byte 19.
parse_mut(payload) ==
    IF /\ Len(payload) = 22
       /\ Slice(payload, 0, 2) = <<165, 2>>
       /\ Slice(payload, 3, 5) = <<16, 0>>
       /\ Slice(payload, 6, 10) = <<1, 97, 161, 0>>
    THEN LET weight == Byte(payload, 10) + 256 * Byte(payload, 11)
                         + 65536 * Byte(payload, 12)
             impedance == Byte(payload, 13) + 256 * Byte(payload, 14)
             keys == {"display_unit", "weight"} \cup
                     (IF Byte(payload, 20) = 1 /\ impedance # 0
                      THEN {"impedance"} ELSE {})
         IN  [k \in keys |->
                 CASE k = "display_unit" -> Byte(payload, 21)
                   [] k = "weight" -> round2(weight)
                   [] k = "impedance" -> impedance]
    ELSE NoData

parse(payload) ==
    IF /\ Len(payload) = 22
       /\ Byte(payload, 19) = 1
       /\ Slice(payload, 0, 2) = <<165, 2>>
       /\ Slice(payload, 3, 5) = <<16, 0>>
       /\ Slice(payload, 6, 10) = <<1, 97, 161, 0>>
    THEN LET weight == Byte(payload, 10) + 256 * Byte(payload, 11)
                         + 65536 * Byte(payload, 12)
             impedance == Byte(payload, 13) + 256 * Byte(payload, 14)
             keys == {"display_unit", "weight"} \cup
                     (IF Byte(payload, 20) = 1 /\ impedance # 0
                      THEN {"impedance"} ELSE {})
         IN  [k \in keys |->
                 CASE k = "display_unit" -> Byte(payload, 21)
                   [] k = "weight" -> round2(weight)
                   [] k = "impedance" -> impedance]
    ELSE NoData

\* A 22-byte notification frame with the given weight (grams), impedance,
\* validity byte 19, impedance flag byte 20 and unit byte 21.
Frame(w, imp, b19, b20, b21) ==
    <<165, 2, 0, 16, 0, 0, 1, 97, 161, 0,
      w % 256, (w \div 256) % 256, (w \div 65536) % 256,
      imp % 256, (imp \div 256) % 256, 0, 0, 0, 0, b19, b20, b21>>

\* The notification payloads the transport delivers in the model.
NotifyPayloads ==
    { Frame(1000, 100, 1, 1, u) : u \in 0..MaxUnitByte }
    \cup { Frame(1000, 100, 0, 1, 0) }
    \cup { SubSeq(Frame(1000, 100, 1, 1, 0), 1, 21) }

(* ----------------------- advertisement frames ------------------------- *)
\* Text is a sequence of one-character strings; Python's None where a text
\* is expected is the one-element sequence below, which no text equals.
NoneText == <<"None">>

UpperHex == <<"0", "1", "2", "3", "4", "5", "6", "7",
              "8", "9", "A", "B", "C", "D", "E", "F">>

LowerHex == <<"0", "1", "2", "3", "4", "5", "6", "7",
              "8", "9", "a", "b", "c", "d", "e", "f">>

\* f"{b:02X}"
Hex02X(b) == <<UpperHex[(b \div 16) + 1], UpperHex[(b % 16) + 1]>>

\* bytes.hex(): two lowercase digits per byte, no separator.
RECURSIVE hex(_)
hex(payload) ==
    IF payload = <<>> THEN <<>>
    ELSE <<LowerHex[(Head(payload) \div 16) + 1],
           LowerHex[(Head(payload) % 16) + 1]>> \o hex(Tail(payload))

\* seq[::-1]
RECURSIVE Reversed(_)
Reversed(seq) ==
    IF seq = <<>> THEN <<>> ELSE Append(Reversed(Tail(seq)), Head(seq))

\* ":".join(f"{b:02X}" for b in bytes)
RECURSIVE JoinHex(_)
JoinHex(bytes) ==
    IF bytes = <<>> THEN <<>>
    ELSE IF Len(bytes) = 1 THEN Hex02X(Head(bytes))
    ELSE Hex02X(Head(bytes)) \o <<":">> \o JoinHex(Tail(bytes))

\* A decoder that formats the MAC bytes in frame order.
parse_mfr_06d0_mut(payload) ==
    IF Len(payload) # 20 \/ Byte(payload, 0) # 1
    THEN [mac |-> NoneText, weight |-> None, impedance |-> None,
          raw_hex |-> hex(payload)]
    ELSE LET grams == Byte(payload, 10) + 256 * Byte(payload, 11)
                        + 65536 * Byte(payload, 12)
             imp == Byte(payload, 13) + 256 * Byte(payload, 14)
         IN  [mac |-> JoinHex(Slice(payload, 1, 7)),
              weight |-> IF grams > 0 THEN grams ELSE None,
              impedance |-> IF imp # 0 THEN imp ELSE None,
              raw_hex |-> hex(payload)]

\* _parse_mfr_06d0: the dict it returns, as a record.  The weight is
\* round(grams / 1000.0, 3) in thousandths of a kilogram, which is grams
\* again: the binary64 quotient is within 2^-53 of the decimal, so rounding
\* it to three decimals returns that decimal, for every 24-bit value.
parse_mfr_06d0(payload) ==
    IF Len(payload) # 20 \/ Byte(payload, 0) # 1
    THEN [mac |-> NoneText, weight |-> None, impedance |-> None,
          raw_hex |-> hex(payload)]
    ELSE LET grams == Byte(payload, 10) + 256 * Byte(payload, 11)
                        + 65536 * Byte(payload, 12)
             imp == Byte(payload, 13) + 256 * Byte(payload, 14)
         IN  [mac |-> JoinHex(Reversed(Slice(payload, 1, 7))),
              weight |-> IF grams > 0 THEN grams ELSE None,
              impedance |-> IF imp # 0 THEN imp ELSE None,
              raw_hex |-> hex(payload)]

\* A 20-byte manufacturer payload with first byte b0, MAC bytes mac (in
\* frame order), weight w in grams and impedance imp.
AdvFrame(b0, mac, w, imp) ==
    <<b0>> \o mac \o <<192, 168, 1,
      w % 256, (w \div 256) % 256, (w \div 65536) % 256,
      imp % 256, (imp \div 256) % 256, 1, 1, 2, 3, 0>>

\* payload cut or zero-padded to n bytes.
Resize(payload, n) ==
    [i \in 1..n |-> IF i <= Len(payload) THEN payload[i] ELSE 0]

(* --------------------- stabilizer: pure functions --------------------- *)
\* Weights are held in grams (thousandths of a kilogram) and quantized
\* weights as the number k of steps of weight_epsilon_kg = 0.02 they are
\* equal to: _quantize_weight returns the binary64 nearest to k / 50.

RECURSIVE Pow2Mod50(_)
Pow2Mod50(s) == IF s = 0 THEN 1 ELSE (2 * Pow2Mod50(s - 1)) % 50

\* floor(log2(n / d)) + 10 for 2^-10 <= n / d < 2^(k - 9)
RECURSIVE FloorLog2Off(_, _, _)
FloorLog2Off(n, d, k) ==
    IF k = 0 THEN 0
    ELSE IF (IF k >= 10 THEN Pow2(k - 10) * d <= n
                        ELSE d <= n * Pow2(10 - k))
         THEN k
         ELSE FloorLog2Off(n, d, k - 1)

\* The binary exponent of the binary64 nearest to n / d.
Exponent(n, d) == FloorLog2Off(n, d, 30) - 10

\* The representation error of the binary64 nearest to n / d, as a multiple
\* of 1/d of that number's unit in the last place: the remainder of
\* n * 2^s modulo d for the scaling exponent s, taken to the nearer side.
ReprErr(n, d, pow2mod) ==
    LET r == ((n % d) * pow2mod) % d
    IN  IF 2 * r < d THEN 0 - r ELSE d - r

\* The representation error of the literal 0.02, in units of 2^-58 / 50.
StepErr == ReprErr(1, 50, Pow2Mod50(58))

\* _quantize_weight(w, 0.02) for w = grams / 1000: round(round(w / step) *
\* step, 3), as a number of steps.  Off a tie the nearest step.  On a tie
\* (grams % 20 = 10) the inner round sees the binary64 quotient of two
\* rounded operands: D is its distance from m + 0.5 and H half the spacing
\* of binary64 numbers there, both in units of 2^-58 / 40.  Within H the
\* quotient is m + 0.5 exactly and round goes to the even neighbour;
\* otherwise it goes to the side the quotient falls on.
quantize_weight(grams) ==
    IF grams % 20 # 10 THEN (grams + 10) \div 20
    ELSE LET m == grams \div 20
             E == Exponent(grams, 1000)
             a == ReprErr(grams, 1000, Pow2Mod1000(52 - E))
             up == IF E + 6 >= 0 THEN Pow2(E + 6) ELSE 1
             scale == IF E + 6 >= 0 THEN 1 ELSE Pow2(0 - (E + 6))
             D == 2 * a * up - (2 * m + 1) * 20 * StepErr * scale
             H == 40 * Pow2(Exponent(2 * m + 1, 2) + 5) * scale
         IN  IF D < H /\ 0 - D < H
             THEN (IF m % 2 = 0 THEN m ELSE m + 1)
             ELSE IF D > 0 THEN m + 1 ELSE m

\* abs(wq - prev_q) > weight_epsilon_kg / 2 for two quantized weights:
\* equal ones differ by 0, distinct ones by about one step or more, and
\* half a step is 0.01.
differs_by_half_epsilon(k1, k2) == k1 # k2

\* The error of the binary64 nearest to k / 50, in units of 2^-58 / 50.
StepsErr(k) ==
    IF k = 0 THEN 0
    ELSE LET E == Exponent(k, 50)
         IN  ReprErr(k, 50, Pow2Mod50(52 - E)) * Pow2(E + 6)

\* abs(wq - last_q) >= min_delta_kg with min_delta_kg = 0.02.  Two steps
\* or more apart it holds and for equal weights it does not.  One step
\* apart the subtraction is exact, so the difference is 0.02 plus the
\* difference of the two representation errors, compared with the binary64
\* 0.02, whose own error is StepErr.
differs_by_min_delta(k1, k2) ==
    LET lo == IF k1 < k2 THEN k1 ELSE k2
        hi == IF k1 < k2 THEN k2 ELSE k1
    IN  IF hi = lo THEN FALSE
        ELSE IF hi - lo >= 2 THEN TRUE
        ELSE StepsErr(hi) - StepsErr(lo) >= StepErr

\* str.upper() on one character of an address.
upper(c) ==
    CASE c = "a" -> "A" [] c = "b" -> "B" [] c = "c" -> "C"
      [] c = "d" -> "D" [] c = "e" -> "E" [] c = "f" -> "F"
      [] OTHER -> c

\* A normalization that leaves the case of the letters alone.
norm_mac_mut(s) ==
    IF s = NoneText \/ s = <<>> THEN NoneText
    ELSE [i \in 1..Len(s) |->
             IF s[i] = "-" \/ s[i] = "." THEN ":" ELSE s[i]]

\* _norm_mac: None for None and for the empty string, else the string with
\* "-" and "." replaced by ":" and upper-cased.
norm_mac(s) ==
    IF s = NoneText \/ s = <<>> THEN NoneText
    ELSE [i \in 1..Len(s) |->
             IF s[i] = "-" \/ s[i] = "." THEN ":" ELSE upper(s[i])]

\* _should_consider_device for the normalized filter and the two addresses
\* of a sample: device.address and the MAC parsed from the frame.
should_consider_device(addr_filter_norm, device_address, parsed_mac) ==
    IF addr_filter_norm = NoneText THEN TRUE
    ELSE \/ norm_mac(device_address) = addr_filter_norm
         \/ norm_mac(parsed_mac) = addr_filter_norm

(* ------------------------------- state -------------------------------- *)
VARIABLES
    connection_status,   \* self._connection_status
    client,              \* self._client: None or a connection handle
    hw_version,          \* self._hw_version
    sw_version,          \* self._sw_version
    display_unit,        \* self._display_unit
    unit_update_flag,    \* self._unit_update_flag
    unit_update_buff,    \* self._unit_update_buff
    lock,                \* self._lock: "free", or the holder "start" / "stop"
    waiters,             \* advertisement tasks queued on self._lock (FIFO)
    scanning,            \* the scanner backend is started
    tasks,               \* advertisement-callback tasks: position and handle
    live,                \* connection handles the transport holds connected
    subscribed,          \* handles with an active notification subscription
    connect_calls,       \* establish_connection calls started so far
    last,                \* the latest step: its kind, input and pre-state
    codec,               \* the frame decoders applied to one payload
    stab,                \* listen_advertisements: its closure state and output
    facade,              \* the body-metrics facade and its listener tasks
    metrics              \* BodyMetrics applied to one reading

vars == <<connection_status, client, hw_version, sw_version, display_unit,
          unit_update_flag, unit_update_buff, lock, waiters, scanning, tasks,
          live, subscribed, connect_calls, last, codec, stab, facade,
          metrics>>

\* The variables of the GATT session and of its transport.
gatt == <<connection_status, client, hw_version, sw_version, display_unit,
          unit_update_flag, unit_update_buff, lock, waiters, scanning, tasks,
          live, subscribed, connect_calls, last>>

\* The variables of the components a GATT session never touches.
others == <<codec, stab, facade, metrics>>

\* The value of a component's variable in a specification that does not
\* run it.
Off == [stage |-> "off"]

session == <<connection_status, client, hw_version, sw_version, display_unit,
             unit_update_flag, unit_update_buff>>

transport == <<live, subscribed, connect_calls>>

\* bytearray.fromhex(UNIT_UPDATE_COMMAND), a buffer of at least 11 bytes of
\* which the session only ever assigns offsets 5 and 10; the other bytes of
\* the command (const.py) are left at 0 here.
UNIT_UPDATE_COMMAND == [i \in 0..10 |-> 0]

Idle == [pc |-> "idle", target |-> None]

At(pc, target) == [pc |-> pc, target |-> target]

\* The record of a step: what ran, its input, and the state it ran in.
Ev(op, arg, wrote, called) ==
    [op |-> op, arg |-> arg, wrote |-> wrote, called |-> called,
     raised |-> FALSE,
     pre_status |-> connection_status, pre_flag |-> unit_update_flag,
     pre_unit |-> display_unit]

\* The record of a step that ends with an exception leaving the handler.
EvRaised(op, arg, called) ==
    [Ev(op, arg, FALSE, called) EXCEPT !.raised = TRUE]

InFlight == {t \in Tasks : tasks[t].pc \notin {"idle", "waitlock"}}

Establishing == {t \in Tasks : tasks[t].pc = "connecting"}

(* ------------------------------- Init --------------------------------- *)
\* __init__ with display_unit `unit` (None, KG, LB or ST): the class
\* attributes, then the display_unit setter when a unit was passed.
GattInit(unit) ==
    /\ connection_status = DISCONNECTED
    /\ client = None
    /\ hw_version = NoneStr
    /\ sw_version = NoneStr
    /\ display_unit = unit
    /\ unit_update_flag = (unit # None)
    /\ unit_update_buff = UNIT_UPDATE_COMMAND
    /\ lock = "free"
    /\ waiters = <<>>
    /\ scanning = FALSE
    /\ tasks = [t \in Tasks |-> Idle]
    /\ live = {}
    /\ subscribed = {}
    /\ connect_calls = 0
    /\ last = [op |-> "init", arg |-> unit, wrote |-> FALSE,
               called |-> FALSE, raised |-> FALSE,
               pre_status |-> DISCONNECTED,
               pre_flag |-> FALSE, pre_unit |-> None]

Init ==
    /\ \E unit \in {None} \cup WeightUnit : GattInit(unit)
    /\ codec = Off
    /\ stab = Off
    /\ facade = Off
    /\ metrics = Off

(* ------------------------ display_unit setter ------------------------- *)
\* A setter that assigns whatever it is given, None included.
set_display_unit_mut(value) ==
    /\ display_unit' = value
    /\ unit_update_flag' = TRUE
    /\ last' = Ev("set_display_unit", value, FALSE, FALSE)
    /\ UNCHANGED <<connection_status, client, hw_version, sw_version,
                   unit_update_buff, lock, waiters, scanning, tasks,
                   transport>>
    /\ UNCHANGED others

set_display_unit(value) ==
    /\ IF value # None
       THEN /\ display_unit' = value
            /\ unit_update_flag' = TRUE
       ELSE UNCHANGED <<display_unit, unit_update_flag>>
    /\ last' = Ev("set_display_unit", value, FALSE, FALSE)
    /\ UNCHANGED <<connection_status, client, hw_version, sw_version,
                   unit_update_buff, lock, waiters, scanning, tasks,
                   transport>>
    /\ UNCHANGED others

(* ---------------------- async_start / async_stop ---------------------- *)
\* async_start up to `await self._scanner.start()`, the lock held.
async_start_begin ==
    /\ lock = "free" /\ waiters = <<>>
    /\ lock' = "start"
    /\ last' = Ev("async_start_begin", 0, FALSE, FALSE)
    /\ UNCHANGED <<session, waiters, scanning, tasks, transport>>
    /\ UNCHANGED others

\* scanner.start() returns or raises; the lock is released either way, and
\* the handler logs the exception and raises it again.
async_start_end(ok) ==
    /\ lock = "start"
    /\ lock' = "free"
    /\ scanning' = IF ok THEN TRUE ELSE scanning
    /\ last' = IF ok THEN Ev("async_start_ok", 0, FALSE, FALSE)
               ELSE EvRaised("async_start_raise", 0, FALSE)
    /\ UNCHANGED <<session, waiters, tasks, transport>>
    /\ UNCHANGED others

async_stop_begin ==
    /\ lock = "free" /\ waiters = <<>>
    /\ lock' = "stop"
    /\ last' = Ev("async_stop_begin", 0, FALSE, FALSE)
    /\ UNCHANGED <<session, waiters, scanning, tasks, transport>>
    /\ UNCHANGED others

async_stop_end(ok) ==
    /\ lock = "stop"
    /\ lock' = "free"
    /\ scanning' = IF ok THEN FALSE ELSE scanning
    /\ last' = IF ok THEN Ev("async_stop_ok", 0, FALSE, FALSE)
               ELSE EvRaised("async_stop_raise", 0, FALSE)
    /\ UNCHANGED <<session, waiters, tasks, transport>>
    /\ UNCHANGED others

(* ----------------------- _advertisement_callback ---------------------- *)
\* A first test that does not look at the address.
adv_guard_mut(addr) ==
    connection_status = DISCONNECTED

\* The first test of the callback: the advertisement is for this session's
\* scale and the session is Disconnected.
adv_guard(addr) ==
    addr = address /\ connection_status = DISCONNECTED

\* The locked section without its repeated test.
lock_recheck_mut == TRUE

\* The test repeated once the lock is held.
lock_recheck == connection_status = DISCONNECTED

\* The body of `async with self._lock`, and, when it does not return, the
\* call of establish_connection that follows it without a suspension point.
locked_section(t, arg) ==
    IF lock_recheck
    THEN /\ connection_status' = CONNECTING
         /\ connect_calls' = connect_calls + 1
         /\ tasks' = [tasks EXCEPT ![t] = At("connecting", connect_calls + 1)]
         /\ last' = Ev("connect_start", arg, FALSE, FALSE)
    ELSE /\ tasks' = [tasks EXCEPT ![t] = Idle]
         /\ last' = Ev("adv_abort", arg, FALSE, FALSE)
         /\ UNCHANGED <<connection_status, connect_calls>>

\* An advertisement is dispatched to a new task (the first free slot), which
\* runs to its first suspension point: it returns, or queues on the held
\* lock, or takes the free lock and starts to connect.
advertisement_callback(t, addr) ==
    /\ scanning
    /\ tasks[t].pc = "idle"
    /\ \A u \in Tasks : u < t => tasks[u].pc # "idle"
    /\ IF ~adv_guard(addr)
       THEN /\ last' = Ev("adv_ignored", IF addr = address THEN 1 ELSE 0,
                          FALSE, FALSE)
            /\ UNCHANGED <<session, lock, waiters, scanning, tasks, transport>>
       ELSE /\ connect_calls + Len(waiters) < MaxConnects
            /\ IF lock = "free" /\ waiters = <<>>
               THEN /\ locked_section(t, 0)
                    /\ UNCHANGED <<client, hw_version, sw_version,
                                   display_unit, unit_update_flag,
                                   unit_update_buff, lock, waiters, scanning,
                                   live, subscribed>>
               ELSE /\ tasks' = [tasks EXCEPT ![t] = At("waitlock", None)]
                    /\ waiters' = Append(waiters, t)
                    /\ last' = Ev("adv_wait", 0, FALSE, FALSE)
                    /\ UNCHANGED <<session, lock, scanning, transport>>
    /\ UNCHANGED others

\* The lock is handed to the first queued task, which runs the locked
\* section up to its next suspension point.
lock_acquired(t) ==
    /\ lock = "free"
    /\ waiters # <<>>
    /\ Head(waiters) = t
    /\ waiters' = Tail(waiters)
    /\ locked_section(t, 1)
    /\ UNCHANGED <<client, hw_version, sw_version, display_unit,
                   unit_update_flag, unit_update_buff, lock, scanning,
                   live, subscribed>>
    /\ UNCHANGED others

\* A configure sequence that never writes the unit-change command.
write_needed_mut == FALSE

\* The unit-change command is due: the pending flag and a desired unit.
write_needed == unit_update_flag /\ display_unit # None

\* The command with offset 5 computed from the wrong base.
unit_command_mut(buff, unit) ==
    [buff EXCEPT ![5] = 42 - unit, ![10] = unit]

\* The command buffer with offsets 5 and 10 set for the desired unit.
unit_command(buff, unit) ==
    [buff EXCEPT ![5] = 43 - unit, ![10] = unit]

\* The status assigned by the handler of a failed establish_connection.
connect_except_status == DISCONNECTED

\* A configure handler that leaves the flag alone.
configure_except_flag_mut == unit_update_flag

\* The flag assigned by the handler of a failed configure step.
configure_except_flag == TRUE

\* `except Exception` around the configure sequence.
configure_except(t, op) ==
    /\ client' = None
    /\ unit_update_flag' = configure_except_flag
    /\ tasks' = [tasks EXCEPT ![t] = Idle]
    /\ last' = Ev(op, 0, FALSE, FALSE)

\* A GATT call on self._client: with no client the attribute access raises
\* inside the try block, otherwise the task suspends on the call.
gatt_call(t, pc, okop, failop) ==
    IF client' = None
    THEN /\ unit_update_flag' = configure_except_flag
         /\ tasks' = [tasks EXCEPT ![t] = Idle]
         /\ last' = Ev(failop, 1, FALSE, FALSE)
    ELSE /\ unit_update_flag' = unit_update_flag
         /\ tasks' = [tasks EXCEPT ![t] = At(pc, client')]
         /\ last' = Ev(okop, 0, FALSE, FALSE)

\* establish_connection returns a handle or raises.  On success the code
\* runs on to its next await: the unit-change write when due, else
\* start_notify.
connect_done(t, ok) ==
    /\ tasks[t].pc = "connecting"
    /\ IF ok
       THEN /\ client' = tasks[t].target
            /\ connection_status' = CONNECTED
            /\ live' = live \cup {tasks[t].target}
            /\ IF write_needed
               THEN /\ unit_update_buff' =
                           unit_command(unit_update_buff, display_unit)
                    /\ tasks' = [tasks EXCEPT
                                   ![t] = At("writing", tasks[t].target)]
                    /\ last' = Ev("connect_ok", 0, TRUE, FALSE)
               ELSE /\ tasks' = [tasks EXCEPT
                                   ![t] = At("subscribing", tasks[t].target)]
                    /\ last' = Ev("connect_ok", 0, FALSE, FALSE)
                    /\ UNCHANGED unit_update_buff
            /\ UNCHANGED unit_update_flag
       ELSE /\ client' = None
            /\ connection_status' = connect_except_status
            /\ tasks' = [tasks EXCEPT ![t] = Idle]
            /\ last' = Ev("connect_fail", 0, FALSE, FALSE)
            /\ UNCHANGED <<unit_update_flag, unit_update_buff, live>>
    /\ UNCHANGED <<hw_version, sw_version, display_unit, lock, waiters,
                   scanning, subscribed, connect_calls>>
    /\ UNCHANGED others

\* write_gatt_char returns or raises; then start_notify is called.
write_done(t, ok) ==
    /\ tasks[t].pc = "writing"
    /\ IF ok
       THEN /\ tasks[t].target \in live
            /\ client' = client
            /\ gatt_call(t, "subscribing", "write_ok", "subscribe_fail")
       ELSE configure_except(t, "write_fail")
    /\ UNCHANGED <<connection_status, hw_version, sw_version, display_unit,
                   unit_update_buff, lock, waiters, scanning, transport>>
    /\ UNCHANGED others

\* start_notify returns or raises; then the hardware revision is read when
\* none is cached, else the software revision.
subscribe_done(t, ok) ==
    /\ tasks[t].pc = "subscribing"
    /\ IF ok
       THEN /\ tasks[t].target \in live
            /\ subscribed' = subscribed \cup {tasks[t].target}
            /\ client' = client
            /\ IF hw_version \in {NoneStr, ""}
               THEN gatt_call(t, "readhw", "subscribe_ok", "read_hw_fail")
               ELSE gatt_call(t, "readsw", "subscribe_ok", "read_sw_fail")
       ELSE /\ configure_except(t, "subscribe_fail")
            /\ UNCHANGED subscribed
    /\ UNCHANGED <<connection_status, hw_version, sw_version, display_unit,
                   unit_update_buff, lock, waiters, scanning, live,
                   connect_calls>>
    /\ UNCHANGED others

\* The hardware-revision read returns (and decodes) or raises; then the
\* software revision is read.
read_hw_done(t, ok, value) ==
    /\ tasks[t].pc = "readhw"
    /\ IF ok
       THEN /\ tasks[t].target \in live
            /\ hw_version' = value
            /\ client' = client
            /\ gatt_call(t, "readsw", "read_hw_ok", "read_sw_fail")
       ELSE /\ configure_except(t, "read_hw_fail")
            /\ UNCHANGED hw_version
    /\ UNCHANGED <<connection_status, sw_version, display_unit,
                   unit_update_buff, lock, waiters, scanning, transport>>
    /\ UNCHANGED others

\* The software-revision read returns (and decodes) or raises; the callback
\* ends.
read_sw_done(t, ok, value) ==
    /\ tasks[t].pc = "readsw"
    /\ IF ok
       THEN /\ tasks[t].target \in live
            /\ sw_version' = value
            /\ tasks' = [tasks EXCEPT ![t] = Idle]
            /\ last' = Ev("read_sw_ok", 0, FALSE, FALSE)
            /\ UNCHANGED <<client, unit_update_flag>>
       ELSE /\ configure_except(t, "read_sw_fail")
            /\ UNCHANGED sw_version
    /\ UNCHANGED <<connection_status, hw_version, display_unit,
                   unit_update_buff, lock, waiters, scanning, transport>>
    /\ UNCHANGED others

(* ------------------------ _unavailable_callback ----------------------- *)
\* A disconnect callback that leaves the status alone.
unavailable_status_mut == connection_status

\* The status the disconnect callback assigns.
unavailable_status == DISCONNECTED

\* The transport drops a connected handle (its subscription ends with it)
\* and reports it through the disconnect callback.
unavailable_callback(c) ==
    /\ c \in live
    /\ live' = live \ {c}
    /\ subscribed' = subscribed \ {c}
    /\ connection_status' = unavailable_status
    /\ last' = Ev("disconnect", c, FALSE, FALSE)
    /\ UNCHANGED <<client, hw_version, sw_version, display_unit,
                   unit_update_flag, unit_update_buff, lock, waiters,
                   scanning, tasks, connect_calls>>
    /\ UNCHANGED others

(* ------------------------ _notification_handler ----------------------- *)
\* The flag after a decoded notification reporting unit `reported`.
notified_flag(reported) ==
    IF display_unit = None THEN FALSE ELSE reported # display_unit

\* The desired unit after a decoded notification reporting unit `reported`.
notified_unit(reported) ==
    IF display_unit = None THEN reported ELSE display_unit

\* A subscribed handle delivers a payload.  A payload parse rejects is
\* dropped; WeightUnit(...) raises for a unit byte outside the enumeration,
\* before any attribute is assigned; otherwise the unit bookkeeping runs and
\* the callback is invoked, outside any try block: when it raises, the
\* exception leaves the handler.
notification_handler(c, payload, raises) ==
    /\ c \in subscribed
    /\ LET data == parse(payload)
       IN  IF DOMAIN data = {}
           THEN /\ last' = Ev("notify_dropped", 0, FALSE, FALSE)
                /\ UNCHANGED <<display_unit, unit_update_flag>>
           ELSE IF data["display_unit"] \notin WeightUnit
           THEN /\ last' = EvRaised("notify_raise", data["display_unit"],
                                    FALSE)
                /\ UNCHANGED <<display_unit, unit_update_flag>>
           ELSE /\ display_unit' = notified_unit(data["display_unit"])
                /\ unit_update_flag' = notified_flag(data["display_unit"])
                /\ last' = IF raises
                           THEN EvRaised("notify_cb_raise",
                                         data["display_unit"], TRUE)
                           ELSE Ev("notify", data["display_unit"],
                                   FALSE, TRUE)
    /\ UNCHANGED <<connection_status, client, hw_version, sw_version,
                   unit_update_buff, lock, waiters, scanning, tasks,
                   transport>>
    /\ UNCHANGED others

(* ------------------------------- Next --------------------------------- *)
Next ==
    \/ \E value \in {None} \cup WeightUnit : set_display_unit(value)
    \/ async_start_begin
    \/ \E ok \in BOOLEAN : async_start_end(ok)
    \/ async_stop_begin
    \/ \E ok \in BOOLEAN : async_stop_end(ok)
    \/ \E t \in Tasks, addr \in Addresses : advertisement_callback(t, addr)
    \/ \E t \in Tasks : lock_acquired(t)
    \/ \E t \in Tasks, ok \in BOOLEAN : connect_done(t, ok)
    \/ \E t \in Tasks, ok \in BOOLEAN : write_done(t, ok)
    \/ \E t \in Tasks, ok \in BOOLEAN : subscribe_done(t, ok)
    \/ \E t \in Tasks, ok \in BOOLEAN, value \in HwValues :
           read_hw_done(t, ok, value)
    \/ \E t \in Tasks, ok \in BOOLEAN, value \in SwValues :
           read_sw_done(t, ok, value)
    \/ \E c \in ClientIds : unavailable_callback(c)
    \/ \E c \in ClientIds, payload \in NotifyPayloads :
           \E raises \in BOOLEAN : notification_handler(c, payload, raises)

Spec == Init /\ [][Next]_vars

(* ============================ the decoders ============================ *)
\* Weights in grams: zero, decimal ties of the hundredths, the vectors of
\* the tests and the largest 24-bit value.
CodecWeights == {0, 1, 4, 5, 6, 15, 25, 1000, 1005, 47, 66000, 16777215}

CodecImpedances == {0, 1, 300, 65535}

\* One well-formed notification frame and one well-formed manufacturer
\* payload, from which malformed ones are derived.
GoodNotification == Frame(1000, 100, 1, 1, 0)

GoodAdvertisement == AdvFrame(1, <<255, 238, 221, 204, 187, 170>>, 66000, 300)

\* The byte sequences handed to parse: every combination of the weight,
\* impedance, validity, impedance-flag and unit fields; the well-formed
\* frame with one byte replaced; the well-formed frame and the all-zero
\* buffer at every length up to MaxFrameLen.
CodecNotifyPayloads ==
    { Frame(w, imp, b19, b20, b21) :
          w \in CodecWeights, imp \in CodecImpedances,
          b19 \in 0..2, b20 \in 0..2, b21 \in 0..MaxUnitByte }
    \cup { [GoodNotification EXCEPT ![i] = v] : i \in 1..22, v \in {0, 1, 255} }
    \cup { Resize(GoodNotification, n) : n \in 0..MaxFrameLen }
    \cup { Resize(<<>>, n) : n \in 0..MaxFrameLen }

\* The manufacturer payloads handed to _parse_mfr_06d0, built the same way.
CodecAdvPayloads ==
    { AdvFrame(b0, mac, w, imp) :
          b0 \in 0..2,
          mac \in { <<255, 238, 221, 204, 187, 170>>,
                    <<1, 35, 69, 103, 137, 171>>, <<0, 0, 0, 0, 0, 10>> },
          w \in CodecWeights, imp \in CodecImpedances }
    \cup { [GoodAdvertisement EXCEPT ![i] = v] : i \in 1..20, v \in {0, 1, 255} }
    \cup { Resize(GoodAdvertisement, n) : n \in 0..MaxFrameLen }
    \cup { Resize(<<>>, n) : n \in 0..MaxFrameLen }

\* A payload has arrived, on the notification characteristic or in an
\* advertisement's manufacturer data, and is not decoded yet.
CodecInit ==
    /\ GattInit(None)
    /\ stab = Off
    /\ facade = Off
    /\ metrics = Off
    /\ \/ \E payload \in CodecNotifyPayloads :
              codec = [stage |-> "notification", payload |-> payload]
       \/ \E payload \in CodecAdvPayloads :
              codec = [stage |-> "advertisement", payload |-> payload]

\* parse(payload) returns: the payload and the value returned.
decode_notification ==
    /\ codec.stage = "notification"
    /\ codec' = [stage |-> "parse", payload |-> codec.payload,
                 data |-> parse(codec.payload)]
    /\ UNCHANGED <<gatt, stab, facade, metrics>>

\* _parse_mfr_06d0(payload) returns: the payload and the dict returned.
decode_advertisement ==
    /\ codec.stage = "advertisement"
    /\ codec' = [stage |-> "parse_mfr", payload |-> codec.payload,
                 out |-> parse_mfr_06d0(codec.payload)]
    /\ UNCHANGED <<gatt, stab, facade, metrics>>

CodecNext ==
    \/ decode_notification
    \/ decode_advertisement

SpecCodec == CodecInit /\ [][CodecNext]_vars

(* =========================== the stabilizer =========================== *)
\* device.address of the advertisements: the scale as the transport reports
\* it, and another device.
ScaleAddress ==
    <<"a", "a", "-", "b", "b", "-", "c", "c", "-",
      "d", "d", "-", "e", "e", "-", "f", "f">>

OtherAddress ==
    <<"1", "1", ":", "2", "2", ":", "3", "3", ":",
      "4", "4", ":", "5", "5", ":", "6", "6">>

\* The address_filter argument: None, or the scale's address as a caller
\* may write it.
AddressFilters ==
    {NoneText, <<"A", "a", ".", "B", "b", ".", "C", "c", ".",
                 "D", "d", ".", "E", "e", ".", "F", "f">>}

\* MAC bytes in frame order: the scale's (AA:BB:CC:DD:EE:FF reversed) and
\* the other device's.
ScaleMac == <<255, 238, 221, 204, 187, 170>>

OtherMac == <<102, 85, 68, 51, 34, 17>>

\* Weights in grams: absent, two that quantize to 66.00 kg and one that
\* quantizes to 66.02 kg.
StabWeights == {0, 66000, 66004, 66020}

\* adv.manufacturer_data.get(0x06D0) of the scale's advertisements: missing
\* (the empty payload), a frame the decoder rejects, a frame without
\* weight, and well-formed frames with or without impedance.
ScalePayloads ==
    {<<>>, AdvFrame(0, ScaleMac, 66000, 300), AdvFrame(1, ScaleMac, 0, 300),
     AdvFrame(1, ScaleMac, 66004, 0)}
    \cup { AdvFrame(1, ScaleMac, w, imp) :
               w \in {66000, 66020}, imp \in {0, 300} }

\* The advertisements: device.address and the manufacturer payload.  The
\* scale is also seen under another transport address (its frames still
\* carry its MAC), and another device sends frames of its own.
StabSamples ==
    { <<ScaleAddress, payload>> : payload \in ScalePayloads }
    \cup { <<OtherAddress, AdvFrame(1, ScaleMac, 66020, 300)>>,
           <<OtherAddress, AdvFrame(1, OtherMac, 66020, 0)>> }

\* The choices of require_service, address_filter and emit_transients.
StabConfigs ==
    { <<FALSE, filter, transients>> :
          filter \in AddressFilters, transients \in BOOLEAN }
    \cup { <<TRUE, NoneText, FALSE>> }

\* The longest run of one quantized weight an address is seen with.
RepeatCap(addr) == IF addr = ScaleAddress THEN MaxRepeat ELSE MaxOtherRepeat

\* _parse_mfr_06d0 and _quantize_weight over the payloads above: the graphs
\* of the two functions, computed once.
parsed_payload == [sample \in StabSamples |-> parse_mfr_06d0(sample[2])]

quantized == [grams \in StabWeights |-> quantize_weight(grams)]

\* The dicts of the closure, as functions from the addresses seen.
NoEntries == [a \in {} |-> 0]

\* dict.get(key, default)
Get(dict, key, default) == IF key \in DOMAIN dict THEN dict[key] ELSE default

\* dict[key] = value
Put(dict, key, value) ==
    [a \in DOMAIN dict \cup {key} |-> IF a = key THEN value ELSE dict[a]]

\* listen_advertisements up to the start of the scanner, for each choice of
\* require_service, address_filter and emit_transients, the other arguments
\* at their defaults.  time.time() is already far beyond one interval.
StabInit ==
    /\ GattInit(None)
    /\ codec = Off
    /\ facade = Off
    /\ metrics = Off
    /\ \E config \in StabConfigs :
           stab = [stage |-> "listening",
                   require_service |-> config[1],
                   address_filter |-> config[2],
                   addr_filter_norm |-> norm_mac(config[2]),
                   emit_transients |-> config[3],
                   last_seen_q |-> NoEntries,
                   repeat_count |-> NoEntries,
                   last_emit_ts |-> NoEntries,
                   last_emit_q |-> NoEntries,
                   clock |-> min_emit_interval,
                   out |-> [kind |-> "none"]]

\* A rejection that forgets the runs of repeats counted so far.
Rejected_mut(now, why, device_address, parsed_mac) ==
    stab' = [stab EXCEPT !.clock = now,
                         !.repeat_count = NoEntries,
                         !.out = [kind |-> "rejected", why |-> why,
                                  device |-> device_address,
                                  mac_in_frame |-> parsed_mac]]

\* _on_detect returns before the stabilizer is consulted: for lack of a
\* payload or of the service, or, after decoding, because of the address
\* filter or for lack of a weight.
Rejected(now, why, device_address, parsed_mac) ==
    stab' = [stab EXCEPT !.clock = now,
                         !.out = [kind |-> "rejected", why |-> why,
                                  device |-> device_address,
                                  mac_in_frame |-> parsed_mac]]

\* A stability test that needs one repeat more.
is_stable_mut(imp, count) == imp # None \/ count > stable_repeats

\* stable: impedance is present, or enough repeats of one quantized weight.
is_stable(imp, count) == imp # None \/ count >= stable_repeats

\* A transient gate that ignores emit_transients.
emit_allowed_transient_mut(emit_transients, now, last_ts, last_q, wq) ==
    IF now - last_ts < min_emit_interval THEN FALSE
    ELSE IF last_q = None THEN TRUE
    ELSE differs_by_min_delta(wq, last_q)

\* _emit_allowed_transient
emit_allowed_transient(emit_transients, now, last_ts, last_q, wq) ==
    IF ~emit_transients THEN FALSE
    ELSE IF now - last_ts < min_emit_interval THEN FALSE
    ELSE IF last_q = None THEN TRUE
    ELSE differs_by_min_delta(wq, last_q)

\* A stable gate without the cooldown test.
stable_emit_mut(now, last_ts, last_q, wq) ==
    \/ last_q = None
    \/ differs_by_half_epsilon(wq, last_q)
    \/ TRUE

\* The emit policy for a stable sample: no emission yet for the address, a
\* quantized weight other than the last emitted, or the cooldown is over.
stable_emit(now, last_ts, last_q, wq) ==
    \/ last_q = None
    \/ differs_by_half_epsilon(wq, last_q)
    \/ now - last_ts >= min_emit_interval

\* _on_detect(device, adv), whole: device.address, the manufacturer payload
\* of adv, whether adv (or the device details) lists the FFD0 service, the
\* value time.time() returns, and, when on_reading is called, whether it
\* raises.  The AdvReading is kept without rssi and raw_hex, which are
\* copied through.
on_detect(device_address, payload, service, now) ==
    /\ stab.stage = "listening"
    /\ now \in stab.clock..MaxClock
    /\ IF payload = <<>>
       THEN Rejected(now, "payload", device_address, NoneText)
       ELSE IF stab.require_service /\ ~service
       THEN Rejected(now, "service", device_address, NoneText)
       ELSE
       LET parsed == parsed_payload[<<device_address, payload>>]
       IN  IF ~should_consider_device(stab.addr_filter_norm,
                                      device_address, parsed.mac)
           THEN Rejected(now, "device", device_address, parsed.mac)
           ELSE IF parsed.weight = None
           THEN Rejected(now, "weight", device_address, parsed.mac)
           ELSE
           LET addr == IF device_address \notin {NoneText, <<>>}
                       THEN device_address
                       ELSE IF parsed.mac \notin {NoneText, <<>>}
                       THEN parsed.mac
                       ELSE <<>>
               wq == quantized[parsed.weight]
               prev_q == Get(stab.last_seen_q, addr, None)
               restart == prev_q = None \/ differs_by_half_epsilon(wq, prev_q)
               count == IF restart THEN 1
                        ELSE Get(stab.repeat_count, addr, 1) + 1
               stable == is_stable(parsed.impedance, count)
               last_ts == Get(stab.last_emit_ts, addr, 0)
               last_q == Get(stab.last_emit_q, addr, None)
               do_emit == IF stable
                          THEN stable_emit(now, last_ts, last_q, wq)
                          ELSE emit_allowed_transient(stab.emit_transients,
                                                      now, last_ts, last_q, wq)
           IN  /\ count <= RepeatCap(addr)
               /\ \E raises \in (IF do_emit THEN BOOLEAN ELSE {FALSE}) :
                  stab' =
                    [stab EXCEPT
                       !.clock = now,
                       !.last_seen_q = IF restart THEN Put(@, addr, wq) ELSE @,
                       !.repeat_count = Put(@, addr, count),
                       !.last_emit_ts = IF do_emit THEN Put(@, addr, now) ELSE @,
                       !.last_emit_q = IF do_emit THEN Put(@, addr, wq) ELSE @,
                       !.out =
                          [kind |-> IF do_emit THEN "emitted" ELSE "suppressed",
                           address |-> addr,
                           mac_in_frame |-> parsed.mac,
                           weight_kg |-> parsed.weight,
                           impedance_ohm |-> parsed.impedance,
                           stable |-> stable,
                           ts |-> now,
                           wq |-> wq,
                           caught |-> raises]]
    /\ UNCHANGED <<gatt, codec, facade, metrics>>

StabNext ==
    \E sample \in StabSamples, now \in 1..MaxClock,
       service \in (IF stab.require_service THEN BOOLEAN ELSE {TRUE}) :
        on_detect(sample[1], sample[2], service, now)

SpecStab == StabInit /\ [][StabNext]_vars

(* ============================= the facade ============================= *)
\* The listener tasks one facade creates over its lifetime.
Listeners == 1..MaxListeners

\* `not address` for an argument of type str | None.
falsy(addr) == addr \in {NoneStr, ""}

\* A constructor that requires the address in both modes.
address_required_mut(use_advertisements, addr) == falsy(addr)

\* The constructor's test before it calls the base constructor.
address_required(use_advertisements, addr) ==
    ~use_advertisements /\ falsy(addr)

\* A listener task: where its coroutine stands ("none" before the task is
\* created, "created" before its first step, "starting" in
\* `await scanner.start()`, "sleeping" in the loop, "stopping" in
\* `await scanner.stop()`, then "cancelled" or "failed"), whether a
\* cancellation is pending, whether its scanner's backend is scanning, and
\* whether scanner.start() and scanner.stop() were called.
NoListener ==
    [pc |-> "none", cancel |-> FALSE, scanning |-> FALSE,
     start_called |-> FALSE, stop_called |-> FALSE]

Done == {l \in Listeners : facade.listeners[l].pc \in {"cancelled", "failed"}}

\* The arguments of one constructor call; the address is None, the empty
\* string or the address of the scale.
FacadeInit ==
    /\ GattInit(None)
    /\ codec = Off
    /\ stab = Off
    /\ metrics = Off
    /\ \E use_advertisements \in BOOLEAN, addr \in {NoneStr, "", address} :
           facade = [stage |-> "new",
                     adv_mode |-> use_advertisements,
                     address_arg |-> addr,
                     address |-> NoneStr,
                     adv_task |-> None,
                     listeners |-> [l \in Listeners |-> NoListener],
                     awaiting |-> None,
                     stopped |-> None,
                     out |-> "none"]

\* __init__: the ValueError, or the base constructor with `address or ""`.
facade_init ==
    /\ facade.stage = "new"
    /\ facade' =
         IF address_required(facade.adv_mode, facade.address_arg)
         THEN [facade EXCEPT !.stage = "error", !.out = "ValueError"]
         ELSE [facade EXCEPT !.stage = "ready",
                             !.address = IF falsy(facade.address_arg)
                                         THEN "" ELSE facade.address_arg,
                             !.out = "constructed"]
    /\ UNCHANGED <<gatt, codec, stab, metrics>>

\* A facade that always delegates to the base class.
in_adv_mode_mut == FALSE

\* `if self._adv_mode:` of async_start and async_stop.
in_adv_mode == facade.adv_mode

\* async_start, called while no operation of the facade is suspended.
\* Advertisement mode: the listener task is created and its
\* handle stored, and the call returns.  Otherwise the base class's
\* async_start runs up to its await.
facade_async_start ==
    /\ facade.stage = "ready"
    /\ facade.awaiting = None /\ lock \notin {"start", "stop"}
    /\ IF in_adv_mode
       THEN /\ \E l \in Listeners :
                 /\ facade.listeners[l].pc = "none"
                 /\ \A k \in Listeners : k < l => facade.listeners[k].pc # "none"
                 /\ facade' = [facade EXCEPT
                                 !.listeners[l].pc = "created",
                                 !.adv_task = l,
                                 !.out = "start_returned"]
            /\ UNCHANGED <<gatt, codec, stab, metrics>>
       ELSE async_start_begin

\* The rest of async_stop once `await self._adv_task` is over.
\* `except Exception` does not catch asyncio.CancelledError, which derives
\* from BaseException: the CancelledError of a cancelled task leaves
\* async_stop before the handle is cleared; only the exception of a failed
\* task is swallowed.
stop_resumed(f, l) ==
    IF f.listeners[l].pc = "cancelled"
    THEN [f EXCEPT !.awaiting = None, !.stopped = l, !.out = "stop_raised"]
    ELSE [f EXCEPT !.awaiting = None, !.stopped = l, !.adv_task = None,
                   !.out = "stop_returned"]

\* async_stop.  Advertisement mode: without a task it returns; with one it
\* cancels it (a task that is not done gets a cancellation pending) and
\* awaits it, which suspends unless the task is done.
\* Otherwise the base class's async_stop runs up to its await.
facade_async_stop ==
    /\ facade.stage = "ready"
    /\ facade.awaiting = None /\ lock \notin {"start", "stop"}
    /\ IF in_adv_mode
       THEN /\ facade' =
                 IF facade.adv_task = None
                 THEN [facade EXCEPT !.stopped = None, !.out = "stop_returned"]
                 ELSE LET l == facade.adv_task
                          f == [facade EXCEPT
                                  !.listeners[l].cancel = l \notin Done]
                      IN  IF l \in Done
                          THEN stop_resumed(f, l)
                          ELSE [f EXCEPT !.awaiting = l, !.out = "stop_awaits"]
            /\ UNCHANGED <<gatt, codec, stab, metrics>>
       ELSE async_stop_begin

\* The awaited task is done: async_stop resumes.
facade_stop_done ==
    /\ facade.stage = "ready"
    /\ facade.awaiting # None
    /\ facade.awaiting \in Done
    /\ facade' = stop_resumed(facade, facade.awaiting)
    /\ UNCHANGED <<gatt, codec, stab, metrics>>

\* The first step of a listener task: _runner calls listen_advertisements,
\* which creates its scanner and suspends in `await scanner.start()`.
listener_run(l) ==
    /\ facade.stage = "ready"
    /\ facade.listeners[l].pc = "created"
    /\ ~facade.listeners[l].cancel
    /\ facade' = [facade EXCEPT !.listeners[l].pc = "starting",
                                !.listeners[l].start_called = TRUE]
    /\ UNCHANGED <<gatt, codec, stab, metrics>>

\* scanner.start() returns, and the loop sleeps, or raises, and the task
\* ends with that exception.
listener_started(l, ok) ==
    /\ facade.stage = "ready"
    /\ facade.listeners[l].pc = "starting"
    /\ ~facade.listeners[l].cancel
    /\ facade' = IF ok
                 THEN [facade EXCEPT !.listeners[l].pc = "sleeping",
                                     !.listeners[l].scanning = TRUE]
                 ELSE [facade EXCEPT !.listeners[l].pc = "failed"]
    /\ UNCHANGED <<gatt, codec, stab, metrics>>

\* The pending CancelledError is thrown into the task where it stands.
\* Before the first step nothing of the coroutine runs.  In
\* `await scanner.start()`, which is outside the try block, the task ends
\* at once and the backend is left as far as the start got (`started`).
\* In the loop, the finally block calls scanner.stop().
listener_cancelled(l, started) ==
    /\ facade.stage = "ready"
    /\ facade.listeners[l].cancel
    /\ facade.listeners[l].pc \in {"created", "starting", "sleeping"}
    /\ facade' =
         IF facade.listeners[l].pc = "created"
         THEN [facade EXCEPT !.listeners[l].pc = "cancelled",
                             !.listeners[l].cancel = FALSE]
         ELSE IF facade.listeners[l].pc = "starting"
         THEN [facade EXCEPT !.listeners[l].pc = "cancelled",
                             !.listeners[l].cancel = FALSE,
                             !.listeners[l].scanning = started]
         ELSE [facade EXCEPT !.listeners[l].pc = "stopping",
                             !.listeners[l].cancel = FALSE,
                             !.listeners[l].stop_called = TRUE]
    /\ UNCHANGED <<gatt, codec, stab, metrics>>

\* scanner.stop() returns, and the CancelledError ends the task, or raises,
\* and the task ends with that exception.
listener_stopped(l, ok) ==
    /\ facade.stage = "ready"
    /\ facade.listeners[l].pc = "stopping"
    /\ facade' = IF ok
                 THEN [facade EXCEPT !.listeners[l].pc = "cancelled",
                                     !.listeners[l].scanning = FALSE]
                 ELSE [facade EXCEPT !.listeners[l].pc = "failed"]
    /\ UNCHANGED <<gatt, codec, stab, metrics>>

\* _on_adv: a listener's scanner, while its backend scans, reports a reading
\* that the stabilizer emits; the facade turns it into a ScaleData and
\* passes it to the wrapped callback.
on_adv(l) ==
    /\ facade.stage = "ready"
    /\ facade.listeners[l].scanning
    /\ facade' = [facade EXCEPT !.out = "reading"]
    /\ UNCHANGED <<gatt, codec, stab, metrics>>

\* The operations of the facade, the steps of its listener tasks and, in
\* GATT mode, the steps of the session it delegates to.
FacadeNext ==
    \/ facade_init
    \/ facade_async_start
    \/ facade_async_stop
    \/ facade_stop_done
    \/ \E l \in Listeners : listener_run(l)
    \/ \E l \in Listeners, ok \in BOOLEAN : listener_started(l, ok)
    \/ \E l \in Listeners :
           \E started \in (IF facade.listeners[l].pc = "starting"
                           THEN BOOLEAN ELSE {FALSE}) :
               listener_cancelled(l, started)
    \/ \E l \in Listeners, ok \in BOOLEAN : listener_stopped(l, ok)
    \/ \E l \in Listeners : on_adv(l)
    \/ \E ok \in BOOLEAN : async_start_end(ok)
    \/ \E ok \in BOOLEAN : async_stop_end(ok)
    \/ \E t \in Tasks, addr \in Addresses : advertisement_callback(t, addr)
    \/ \E t \in Tasks : lock_acquired(t)
    \/ \E t \in Tasks, ok \in BOOLEAN : connect_done(t, ok)
    \/ \E t \in Tasks, ok \in BOOLEAN : write_done(t, ok)
    \/ \E t \in Tasks, ok \in BOOLEAN : subscribe_done(t, ok)
    \/ \E t \in Tasks, ok \in BOOLEAN, value \in HwValues :
           read_hw_done(t, ok, value)
    \/ \E t \in Tasks, ok \in BOOLEAN, value \in SwValues :
           read_sw_done(t, ok, value)
    \/ \E c \in ClientIds : unavailable_callback(c)
    \/ \E c \in ClientIds, payload \in NotifyPayloads :
           \E raises \in BOOLEAN : notification_handler(c, payload, raises)

SpecFacade == FacadeInit /\ [][FacadeNext]_vars

(* ========================== the body metrics ========================== *)
\* Numbers are scaled integers: a weight in grams, a height in centimetres,
\* and every metric in units of its last rounded decimal (body_mass_index,
\* fat_free_weight, muscle_mass and bone_mass in hundredths, the
\* percentages in tenths, the others whole).  A property's result is
\* NoValue for Python's None and Value(v) for a number.
NoValue == <<>>

Value(v) == <<v>>

\* int(n / d) for d > 0: truncation towards zero.
Trunc(n, d) == IF n >= 0 THEN n \div d ELSE -((-n) \div d)

\* round(i + n / d) to a whole number for d > 0, ties to the even
\* neighbour.
RoundSum(i, n, d) ==
    LET base == i + (n \div d)
        rem == n % d
    IN  IF 2 * rem > d THEN base + 1
        ELSE IF 2 * rem < d THEN base
        ELSE IF base % 2 = 0 THEN base ELSE base + 1

Clamp(lo, hi, x) == IF x < lo THEN lo ELSE IF x > hi THEN hi ELSE x

\* Sex.Male and Sex.Female, the indices of the factor lists.
Sex == [Male |-> 0, Female |-> 1]

\* A factor list indexed by self.sex.
BySex(self, male, female) == IF self.sex = Sex.Male THEN male ELSE female

\* The arguments of BodyMetrics(...).
BodyMetrics(weight_kg, height_m, age, sex, impedance) ==
    [weight |-> weight_kg, height |-> height_m, age |-> age, sex |-> sex,
     impedance |-> impedance]

\* floor(weight / height ** 2 * 100) / 100, in hundredths.
body_mass_index(self) ==
    IF self.weight = None THEN NoValue
    ELSE Value((self.weight * 1000) \div (self.height * self.height))

\* floor((age_factor * age + bmi_factor * bmi - 500 / impedance
\* - constant) * 10) / 10 clamped to [5, 75], in tenths.  With t the first,
\* second and fourth terms in units of 1e-5, the floor is that of
\* t / 10000 - 5000 / impedance.
body_fat_percentage(self) ==
    IF self.weight = None \/ self.impedance = None \/ self.impedance = 0
    THEN NoValue
    ELSE LET bmi == body_mass_index(self)[1]
             t == BySex(self, 103, 97) * self.age * 100
                    + BySex(self, 1524, 1545) * bmi
                    - BySex(self, 220, 127) * 10000
             below == (t % 10000) * self.impedance
                        < 10000 * (5000 % self.impedance)
             bfp == (t \div 10000) - (5000 \div self.impedance)
                      - (IF below THEN 1 ELSE 0)
         IN  Value(Clamp(50, 750, bfp))

\* round(weight * (1 - bfp / 100), 2), in hundredths.
fat_free_weight(self) ==
    IF self.weight = None \/ body_fat_percentage(self) = NoValue
    THEN NoValue
    ELSE Value(RoundSum(0, self.weight * (1000 - body_fat_percentage(self)[1]),
                     10000))

\* int(bmi_factor * bmi + bfp_factor * bfp + fat_factor * (weight - ffw)
\* - constant) clamped to [1, 30]; the sum is in units of 1e-7.
visceral_fat_value(self) ==
    IF \/ body_mass_index(self) = NoValue
       \/ body_fat_percentage(self) = NoValue
       \/ self.weight = None
       \/ fat_free_weight(self) = NoValue
    THEN NoValue
    ELSE LET bmi == body_mass_index(self)[1]
             bfp == body_fat_percentage(self)[1]
             fat == self.weight - 10 * fat_free_weight(self)[1]
             vfv == BySex(self,
                          86660 * bmi + 8200 * bfp + 260 * fat - 142692000,
                          88950 * bmi + 94300 * bfp - 534 * fat - 162150000)
         IN  Value(Clamp(1, 30, Trunc(vfv, 10000000)))

\* round(bfp_factor * bfp - vfv_factor * vfv, 1), in tenths.
subcutaneous_fat_percentage(self) ==
    IF visceral_fat_value(self) = NoValue
         \/ body_fat_percentage(self) = NoValue
    THEN NoValue
    ELSE Value(RoundSum(0, BySex(self, 965, 983) * body_fat_percentage(self)[1]
                       - 10 * BySex(self, 220, 303)
                            * visceral_fat_value(self)[1],
                     1000))

\* fat_free_weight - max(1, ff1_factor * fat_free_weight), in units of
\* 1e-4 kg, for a fat-free weight ffw in hundredths.
lean(self, ffw) ==
    LET ff1 == BySex(self, 5, 6) * ffw
    IN  100 * ffw - (IF ff1 < 10000 THEN 10000 ELSE ff1)

\* round(ff2_factor * (ffw - ff1) / weight * 100, 1) clamped to [10, 80],
\* in tenths.
body_water_percentage(self) ==
    IF self.weight = None \/ fat_free_weight(self) = NoValue
    THEN NoValue
    ELSE Value(Clamp(100, 800,
                     RoundSum(0, BySex(self, 76, 73)
                             * lean(self, fat_free_weight(self)[1]),
                           self.weight)))

\* int(ffw * 21.6 + 370) clamped to [900, 2500].
basal_metabolic_rate(self) ==
    IF fat_free_weight(self) = NoValue
    THEN NoValue
    ELSE Value(Clamp(900, 2500,
                     Trunc(216 * fat_free_weight(self)[1] + 370000, 1000)))

\* round(ff2_factor * (ffw - ff1) / weight * 100, 1), in tenths.
skeletal_muscle_percentage(self) ==
    IF fat_free_weight(self) = NoValue \/ self.weight = None
    THEN NoValue
    ELSE Value(RoundSum(0, BySex(self, 68, 62)
                       * lean(self, fat_free_weight(self)[1]),
                     self.weight))

\* round(ffw - max(1, ffw_factor * ffw), 2), in hundredths.
muscle_mass(self) ==
    IF fat_free_weight(self) = NoValue
    THEN NoValue
    ELSE Value(RoundSum(0, lean(self, fat_free_weight(self)[1]), 100))

\* max(1, round(ffw_factor * ffw, 2)), in hundredths.
bone_mass(self) ==
    IF fat_free_weight(self) = NoValue
    THEN NoValue
    ELSE LET bone == RoundSum(0, BySex(self, 5, 6) * fat_free_weight(self)[1], 100)
         IN  Value(IF bone < 100 THEN 100 ELSE bone)

\* max(5, round(100 - bfp_factor * bfp - bone_mass / weight * 100 - bwp,
\* 1)), in tenths: k is 100 - bfp_factor * bfp - bwp in thousandths, from
\* which bone_mass / weight * 100 is subtracted by long division.
protein_percentage(self) ==
    IF \/ body_fat_percentage(self) = NoValue
       \/ body_water_percentage(self) = NoValue
       \/ bone_mass(self) = NoValue
       \/ self.weight = None
    THEN NoValue
    ELSE LET k == 100 * (1000 - body_water_percentage(self)[1])
                    - BySex(self, 100, 105) * body_fat_percentage(self)[1]
             b == 10000 * bone_mass(self)[1]
             bpp == RoundSum((k \div 100) - (b \div self.weight),
                             (k % 100) * self.weight
                               - 100 * (b % self.weight),
                             100 * self.weight)
         IN  Value(IF bpp < 50 THEN 50 ELSE bpp)

\* factor * (height_factor * height - constant), in units of 1e-4 kg.
ideal_weight(self) ==
    BySex(self, 7000 * (self.height - 80), 45 * (137 * self.height - 11000))

\* A weight_score without the test for an absent weight.
weight_score_mut(self) ==
    LET res == ideal_weight(self)
        w == 10 * self.weight
    IN  IF res <= w THEN Value(50) ELSE Value(0)

\* weight_score, with the weight w and the ideal weight res in units of
\* 1e-4 kg.
weight_score(self) ==
    IF self.weight = None THEN NoValue
    ELSE LET res == ideal_weight(self)
             w == 10 * self.weight
         IN  IF res <= w
             THEN IF 13 * res < 10 * w THEN Value(50)
                  ELSE Value(Trunc(800 * res - 500 * w, 3 * res))
             ELSE IF 7 * res < 10 * w
             THEN Value(Trunc(500 * w - 200 * res, 3 * res))
             ELSE IF \E x \in 0..5 : res * x > 10 * w
             THEN Value(10 * (CHOOSE x \in 0..5 :
                                /\ res * x > 10 * w
                                /\ \A y \in 0..5 : res * y > 10 * w => x <= y))
             ELSE Value(0)

\* fat_score, with the body fat percentage in tenths.
fat_score(self) ==
    IF body_fat_percentage(self) = NoValue THEN NoValue
    ELSE LET bfp == body_fat_percentage(self)[1]
             constant == BySex(self, 16, 26)
         IN  IF 10 * constant < bfp
             THEN IF bfp >= 450 THEN Value(50)
                  ELSE Value(Trunc(1000 * (45 - constant)
                                     - 50 * (bfp - 10 * constant),
                                   10 * (45 - constant)))
             ELSE Value(Trunc(1000 * (constant - 5)
                                - 50 * (10 * constant - bfp),
                              10 * (constant - 5)))

\* bmi_score, with the body mass index in hundredths.
bmi_score(self) ==
    IF body_mass_index(self) = NoValue THEN NoValue
    ELSE LET bmi == body_mass_index(self)[1]
         IN  IF bmi >= 2200
             THEN IF bmi >= 3500 THEN Value(50)
                  ELSE Value(Trunc(1000000 - 385 * (bmi - 2200), 10000))
             ELSE IF bmi >= 1500
             THEN Value(Trunc(1000000 - 385 * (2200 - bmi), 10000))
             ELSE IF bmi >= 1000 THEN Value(40)
             ELSE IF bmi >= 500 THEN Value(30)
             ELSE Value(20)

\* (ws + fs + bs) // 3.
health_score(self) ==
    IF \/ weight_score(self) = NoValue
       \/ fat_score(self) = NoValue
       \/ bmi_score(self) = NoValue
    THEN NoValue
    ELSE Value((weight_score(self)[1] + fat_score(self)[1]
                  + bmi_score(self)[1]) \div 3)

\* A chain whose tests are `hs <= bound`.
age_adjustment_factor_mut(hs) ==
    Cardinality({bound \in {50, 60, 65, 68, 70, 73, 75, 80, 85, 88, 90, 93,
                            95, 97, 98, 99} : hs > bound})

\* The if/elif chain of metabolic_age.
age_adjustment_factor(hs) ==
    IF hs < 50 THEN 0
    ELSE IF hs < 60 THEN 1
    ELSE IF hs < 65 THEN 2
    ELSE IF hs < 68 THEN 3
    ELSE IF hs < 70 THEN 4
    ELSE IF hs < 73 THEN 5
    ELSE IF hs < 75 THEN 6
    ELSE IF hs < 80 THEN 7
    ELSE IF hs < 85 THEN 8
    ELSE IF hs < 88 THEN 9
    ELSE IF hs < 90 THEN 10
    ELSE IF hs < 93 THEN 11
    ELSE IF hs < 95 THEN 12
    ELSE IF hs < 97 THEN 13
    ELSE IF hs < 98 THEN 14
    ELSE IF hs < 99 THEN 15
    ELSE 16

\* max(18, age + 8 - age_adjustment_factor).
metabolic_age(self) ==
    IF health_score(self) = NoValue THEN NoValue
    ELSE LET aged == self.age + 8
                       - age_adjustment_factor(health_score(self)[1])
         IN  Value(IF aged < 18 THEN 18 ELSE aged)

\* The exported fields, in the order of _as_dictionary.
fields ==
    <<"body_mass_index", "body_fat_percentage", "fat_free_weight",
      "subcutaneous_fat_percentage", "visceral_fat_value",
      "body_water_percentage", "basal_metabolic_rate",
      "skeletal_muscle_percentage", "muscle_mass", "bone_mass",
      "protein_percentage", "weight_score", "fat_score", "bmi_score",
      "health_score", "metabolic_age">>

\* getattr(obj, name).
getattr(self, name) ==
    CASE name = "body_mass_index" -> body_mass_index(self)
      [] name = "body_fat_percentage" -> body_fat_percentage(self)
      [] name = "fat_free_weight" -> fat_free_weight(self)
      [] name = "subcutaneous_fat_percentage" ->
             subcutaneous_fat_percentage(self)
      [] name = "visceral_fat_value" -> visceral_fat_value(self)
      [] name = "body_water_percentage" -> body_water_percentage(self)
      [] name = "basal_metabolic_rate" -> basal_metabolic_rate(self)
      [] name = "skeletal_muscle_percentage" ->
             skeletal_muscle_percentage(self)
      [] name = "muscle_mass" -> muscle_mass(self)
      [] name = "bone_mass" -> bone_mass(self)
      [] name = "protein_percentage" -> protein_percentage(self)
      [] name = "weight_score" -> weight_score(self)
      [] name = "fat_score" -> fat_score(self)
      [] name = "bmi_score" -> bmi_score(self)
      [] name = "health_score" -> health_score(self)
      [] name = "metabolic_age" -> metabolic_age(self)

\* compute_all raises ZeroDivisionError: in body_mass_index for a height of
\* zero, in body_water_percentage for a weight of zero with a fat-free
\* weight, in weight_score for a weight and an ideal weight of zero.
compute_all_raises(self) ==
    /\ self.weight # None
    /\ \/ self.height = 0
       \/ self.weight = 0 /\ self.impedance # None /\ self.impedance # 0
       \/ self.weight = 0 /\ ideal_weight(self) = 0

\* An export that keeps the fields that are None.
exported_mut(self) == {fields[i] : i \in 1..Len(fields)}

\* The fields _as_dictionary exports: those whose value is a number.
exported(self) ==
    {fields[i] : i \in {j \in 1..Len(fields) :
                          getattr(self, fields[j]) # NoValue}}

\* _as_dictionary(obj) when compute_all raises nothing.
as_dictionary(self) ==
    [name \in exported(self) |-> getattr(self, name)]

\* dict.get(key): None for a missing key.
MeasurementOf(measurements, key) ==
    IF key \in DOMAIN measurements THEN measurements[key][1] ELSE None

\* The measurements _notification_handler passes on: the dict parse
\* returned without its display_unit, the weight (hundredths) in grams.
notification_measurements(payload) ==
    LET data == parse(payload)
    IN  [k \in DOMAIN data \ {"display_unit"} |->
            Value(IF k = "weight" THEN 10 * data[k] ELSE data[k])]

\* The measurements of _scale_data_from_adv(ar, display_unit).
scale_data_from_adv(weight_kg, impedance_ohm) ==
    LET keys == (IF weight_kg # None THEN {"weight"} ELSE {})
                  \cup (IF impedance_ohm # None /\ impedance_ohm > 0
                        THEN {"impedance"} ELSE {})
    IN  [k \in keys |->
            Value(IF k = "weight" THEN weight_kg ELSE impedance_ohm)]

\* Inputs: weights in grams (the notification decoder delivers multiples
\* of 10), heights in centimetres, ages, impedances.  Where Python rounds a
\* value that lies half-way between two neighbours, the result depends on
\* the binary representation of the float; the inputs are chosen so that
\* no rounding of the engine meets such a value, and on all of them the
\* operators above return what the source returns.
MetricInputs ==
    [weight |-> {0, 5090, 45130, 68510, 70140, 119990, 199910},
     height |-> {0, 122, 148, 178, 199},
     age |-> {4, 32, 80},
     impedance |-> {0, 1, 159, 320, 520, 2990}]

\* One reading and the user's profile: the arguments of a direct
\* BodyMetrics(...), a notification frame, or an AdvReading.
MetricsInit ==
    /\ GattInit(None)
    /\ codec = Off
    /\ stab = Off
    /\ facade = Off
    /\ \E height \in MetricInputs.height, age \in MetricInputs.age,
          sex \in {Sex.Male, Sex.Female} :
          \/ \E weight \in MetricInputs.weight \cup {None},
                impedance \in MetricInputs.impedance \cup {None} :
                 \E source \in {"engine", "advertisement"} :
                     metrics = [stage |-> "reading", source |-> source,
                                weight |-> weight, impedance |-> impedance,
                                flag |-> 1,
                                height |-> height, age |-> age, sex |-> sex]
          \/ \E weight \in MetricInputs.weight,
                impedance \in MetricInputs.impedance, flag \in {0, 1} :
                 metrics = [stage |-> "reading", source |-> "notification",
                            weight |-> weight, impedance |-> impedance,
                            flag |-> flag,
                            height |-> height, age |-> age, sex |-> sex]

\* A run of the engine on `self`, started from `measurements`: what
\* _as_dictionary returned merged into the measurements (dict |= dict), or
\* the exception.
Computed(measurements, self) ==
    IF compute_all_raises(self)
    THEN [metrics EXCEPT !.stage = "raised"]
    ELSE [stage |-> "computed", source |-> metrics.source,
          weight |-> metrics.weight, impedance |-> metrics.impedance,
          flag |-> metrics.flag,
          height |-> metrics.height, age |-> metrics.age,
          sex |-> metrics.sex,
          self |-> self,
          values |-> [i \in 1..Len(fields) |-> getattr(self, fields[i])],
          added |-> DOMAIN as_dictionary(self),
          measurements |->
              [k \in DOMAIN measurements \cup DOMAIN as_dictionary(self) |->
                  IF k \in DOMAIN as_dictionary(self)
                  THEN as_dictionary(self)[k] ELSE measurements[k]]]

\* _as_dictionary(BodyMetrics(weight, height, age, sex, impedance)).
export_metrics ==
    /\ metrics.stage = "reading"
    /\ metrics.source = "engine"
    /\ metrics' = Computed(<< >>,
                           BodyMetrics(metrics.weight, metrics.height,
                                       metrics.age, metrics.sex,
                                       metrics.impedance))
    /\ UNCHANGED <<gatt, codec, stab, facade>>

\* _wrapped_notification_callback on the ScaleData of a notification: the
\* metrics are merged into the measurements and the caller's callback is
\* invoked, unless the engine raises.
wrapped_notification_callback ==
    /\ metrics.stage = "reading"
    /\ metrics.source = "notification"
    /\ LET measurements ==
               notification_measurements(
                   Frame(metrics.weight, metrics.impedance, 1,
                         metrics.flag, KG))
       IN  metrics' = Computed(measurements,
                               BodyMetrics(MeasurementOf(measurements, "weight"),
                                           metrics.height, metrics.age,
                                           metrics.sex,
                                           MeasurementOf(measurements,
                                                         "impedance")))
    /\ UNCHANGED <<gatt, codec, stab, facade>>

\* _on_adv: _scale_data_from_adv, then _wrapped_notification_callback.
on_adv_reading ==
    /\ metrics.stage = "reading"
    /\ metrics.source = "advertisement"
    /\ LET measurements ==
               scale_data_from_adv(metrics.weight, metrics.impedance)
       IN  metrics' = Computed(measurements,
                               BodyMetrics(MeasurementOf(measurements, "weight"),
                                           metrics.height, metrics.age,
                                           metrics.sex,
                                           MeasurementOf(measurements,
                                                         "impedance")))
    /\ UNCHANGED <<gatt, codec, stab, facade>>

MetricsNext ==
    \/ export_metrics
    \/ wrapped_notification_callback
    \/ on_adv_reading

SpecMetrics == MetricsInit /\ [][MetricsNext]_vars

(* ============================== claims ================================ *)
\* Steps in which establish_connection raised or a configure step raised.
ConfigureFailOps ==
    {"write_fail", "subscribe_fail", "read_hw_fail", "read_sw_fail"}

FailOps == {"connect_fail"} \cup ConfigureFailOps

\* C1: advertisement callbacks delivered while the session is Connecting
\* start no further connect call: an establish_connection call starts only
\* in a step that takes the session from Disconnected to Connecting, at most
\* one such call is in flight at any time, and exactly one while Connecting.
C1_OneConnectPerTransition ==
    /\ Cardinality(Establishing) <= 1
    /\ (connection_status = CONNECTING => Cardinality(Establishing) = 1)
    /\ (last.op = "connect_start" =>
            /\ last.pre_status = DISCONNECTED
            /\ connection_status = CONNECTING)
    /\ (last.pre_status = CONNECTING /\ last.op \in {"adv_ignored", "adv_abort"}
            => connection_status = CONNECTING)

\* C1 witness: a second callback of a burst, queued on the lock behind the
\* one that started to connect, gets the lock while that connect is still in
\* flight and returns.
C1_Witness ==
    /\ last.op = "adv_abort"
    /\ last.pre_status = CONNECTING
    /\ Cardinality(Establishing) = 1

\* C2 (as claimed): at every moment at most one connect/configure sequence
\* is in flight and at most one notification subscription is active.
C2_OneSequenceInFlight ==
    /\ Cardinality(InFlight) <= 1
    /\ Cardinality(subscribed) <= 1

\* C3 (as claimed): after a failure of establish_connection or of any
\* configure step the connection status is Disconnected.
C3_FailureRevertsStatus ==
    last.op \in FailOps => connection_status = DISCONNECTED

\* C4 (as claimed): a transport failure is never fatal: a matching
\* advertisement is passed over only while a connect/configure sequence is
\* in flight or the session holds a live connection handle.
C4_FailureNeverFatal ==
    (last.op = "adv_ignored" /\ last.arg = 1) =>
        \/ InFlight # {}
        \/ (client # None /\ client \in live)

\* C5: a transport disconnect leaves the status Disconnected, whatever it
\* was; the status then stays Disconnected until a matching advertisement
\* starts a new connect attempt, and a matching advertisement handled while
\* Disconnected is never passed over.
C5_DisconnectThenReconnect ==
    /\ (last.op = "disconnect" => connection_status = DISCONNECTED)
    /\ (last.pre_status = DISCONNECTED /\ connection_status # DISCONNECTED
            => last.op = "connect_start")
    /\ (last.op \in {"adv_ignored", "adv_abort"} /\ last.arg = 1
            => last.pre_status # DISCONNECTED)

\* C5 witness: after a disconnect reported while Connected (the session
\* still holds the dropped handle) a matching advertisement has started the
\* second connect attempt.
C5_Witness ==
    /\ last.op = "connect_start"
    /\ connect_calls = 2
    /\ client # None
    /\ client \notin live

C7_FlagClearedOnWrite ==
    last.op = "write_ok" => unit_update_flag = FALSE

\* C8: on a successful connect the unit-change command is written iff the
\* pending flag is set and a desired unit is known; the buffer written has
\* offset 5 equal to 43 minus the desired unit and offset 10 equal to it;
\* with no change pending no write is issued on the new handle and the
\* sequence goes on to the subscription.
C8_UnitCommandWritten ==
    last.op = "connect_ok" =>
        /\ last.wrote <=> (last.pre_flag /\ last.pre_unit # None)
        /\ last.wrote =>
              /\ last.pre_unit \in WeightUnit
              /\ unit_update_buff[5] = 43 - last.pre_unit
              /\ unit_update_buff[10] = last.pre_unit
              /\ \E t \in Tasks : tasks[t] = At("writing", client)
        /\ ~last.wrote =>
              /\ \E t \in Tasks : tasks[t] = At("subscribing", client)
              /\ \A t \in Tasks :
                    tasks[t].pc = "writing" => tasks[t].target # client

\* C8 witness: a connect succeeded with a change to ST pending and the
\* command for ST was written.
C8_Witness ==
    /\ last.op = "connect_ok"
    /\ last.wrote
    /\ last.pre_unit = ST
    /\ unit_update_buff[5] = 41
    /\ unit_update_buff[10] = 2

\* C9 (as claimed): on every decoded notification, with no desired unit the
\* reported unit is adopted and the flag is clear; otherwise the desired
\* unit is unchanged and the flag is set iff the reported unit differs.
C9_NotificationUnitBookkeeping ==
    last.op \in {"notify", "notify_raise", "notify_cb_raise"} =>
        IF last.pre_unit = None
        THEN display_unit = last.arg /\ unit_update_flag = FALSE
        ELSE /\ display_unit = last.pre_unit
             /\ unit_update_flag = (last.arg # last.pre_unit)

\* C10 (as claimed): a new session has no desired unit and a clear flag;
\* assigning KG, LB or ST sets the desired unit and the flag; assigning None
\* changes neither.
C10_NewSessionAndSetter ==
    /\ (last.op = "init" => display_unit = None /\ unit_update_flag = FALSE)
    /\ (last.op = "set_display_unit" =>
            IF last.arg # None
            THEN display_unit = last.arg /\ unit_update_flag = TRUE
            ELSE /\ display_unit = last.pre_unit
                 /\ unit_update_flag = last.pre_flag)

\* C10 (amended): a new session constructed without a display unit has no
\* desired unit and a clear flag, and one constructed with KG, LB or ST has
\* that desired unit and the flag set; assigning KG, LB or ST sets the
\* desired unit and the flag; assigning None changes neither.
C10_ConstructorAndSetter ==
    /\ (last.op = "init" =>
            /\ display_unit = last.arg
            /\ unit_update_flag = (last.arg # None))
    /\ (last.op = "set_display_unit" =>
            IF last.arg # None
            THEN display_unit = last.arg /\ unit_update_flag = TRUE
            ELSE /\ display_unit = last.pre_unit
                 /\ unit_update_flag = last.pre_flag)

\* C10 witness: ST was assigned to a session whose desired unit was another
\* one and whose flag was clear.
C10_Witness ==
    /\ last.op = "set_display_unit"
    /\ last.arg = ST
    /\ last.pre_unit = KG
    /\ last.pre_flag = FALSE
    /\ display_unit = ST
    /\ unit_update_flag = TRUE

\* C11 (as claimed): every notification frame that passes the validity
\* checks of parse results in one invocation of the caller's callback,
\* whatever its weight, impedance and unit bytes; a frame that fails the
\* checks results in none.
C11_CallbackPerValidFrame ==
    /\ (last.op \in {"notify", "notify_raise", "notify_cb_raise"} =>
            last.called)
    /\ (last.op = "notify_dropped" => ~last.called)

\* C12: parse returns a sample exactly for the byte sequences of length 22
\* with byte 19 = 1, bytes 0..1 = A5 02, bytes 3..4 = 10 00 and bytes 6..9 =
\* 01 61 A1 00; for every other sequence it returns the empty value.
C12_ParseValidity ==
    codec.stage = "parse" =>
        LET p == codec.payload
        IN  (DOMAIN codec.data # {}) <=>
                /\ Len(p) = 22
                /\ p[20] = 1
                /\ p[1] = 165 /\ p[2] = 2
                /\ p[4] = 16 /\ p[5] = 0
                /\ p[7] = 1 /\ p[8] = 97 /\ p[9] = 161 /\ p[10] = 0

\* parse has returned the empty value for the all-zero 22-byte buffer.
C12_Witness ==
    /\ codec.stage = "parse"
    /\ codec.payload = [i \in 1..22 |-> 0]
    /\ DOMAIN codec.data = {}

\* C13 (as claimed): for every valid notification frame the decoded weight
\* is the 24-bit value at offset 10 divided by 1000, the unit is byte 21,
\* and the impedance key is present iff byte 20 = 1 and the 16-bit value at
\* offset 13 is non-zero, and then equals that value.
C13_WeightIsGramsOver1000 ==
    (codec.stage = "parse" /\ DOMAIN codec.data # {}) =>
        LET p == codec.payload
            grams == p[11] + 256 * p[12] + 65536 * p[13]
            imp == p[14] + 256 * p[15]
        IN  /\ 10 * codec.data["weight"] = grams
            /\ codec.data["display_unit"] = p[22]
            /\ ("impedance" \in DOMAIN codec.data) <=> (p[21] = 1 /\ imp # 0)
            /\ ("impedance" \in DOMAIN codec.data) =>
                   codec.data["impedance"] = imp

\* C13 (amended): the decoded weight is that quotient rounded to two
\* decimals, so within 5 grams of the 24-bit value; the unit and the
\* impedance are as claimed.
C13_WeightRoundedToHundredths ==
    (codec.stage = "parse" /\ DOMAIN codec.data # {}) =>
        LET p == codec.payload
            grams == p[11] + 256 * p[12] + 65536 * p[13]
            imp == p[14] + 256 * p[15]
        IN  /\ 10 * codec.data["weight"] - grams \in -5..5
            /\ codec.data["display_unit"] = p[22]
            /\ ("impedance" \in DOMAIN codec.data) <=> (p[21] = 1 /\ imp # 0)
            /\ ("impedance" \in DOMAIN codec.data) =>
                   codec.data["impedance"] = imp

\* A valid frame of 1005 grams, impedance field 300 and byte 20 = 0 has
\* decoded to 1.0 kg, unit ST and no impedance key.
C13_Witness ==
    /\ codec.stage = "parse"
    /\ codec.payload = Frame(1005, 300, 1, 0, 2)
    /\ DOMAIN codec.data = {"display_unit", "weight"}
    /\ codec.data["weight"] = 100
    /\ codec.data["display_unit"] = 2

\* C14 (as claimed): in both decoders a zero weight field yields no weight
\* and a zero impedance field yields no impedance.
C14_ZeroIsAbsentInBothDecoders ==
    /\ (codec.stage = "parse" /\ DOMAIN codec.data # {}) =>
           LET p == codec.payload
           IN  /\ (p[11] + 256 * p[12] + 65536 * p[13] = 0) =>
                      "weight" \notin DOMAIN codec.data
               /\ (p[14] + 256 * p[15] = 0) =>
                      "impedance" \notin DOMAIN codec.data
    /\ (codec.stage = "parse_mfr" /\ Len(codec.payload) = 20) =>
           LET p == codec.payload
           IN  /\ (p[11] + 256 * p[12] + 65536 * p[13] = 0) =>
                      codec.out.weight = None
               /\ (p[14] + 256 * p[15] = 0) =>
                      codec.out.impedance = None

\* C15: _parse_mfr_06d0 yields a MAC, a weight or an impedance only for
\* payloads of length 20 with byte 0 = 1; for those the MAC is bytes 6..1 as
\* colon-separated uppercase hex, the weight is the 24-bit value at offset
\* 10 in grams as kilograms, present iff positive, and the impedance is the
\* 16-bit value at offset 13, present iff non-zero.
C15_AdvertisementDecoding ==
    codec.stage = "parse_mfr" =>
        LET p == codec.payload
            out == codec.out
            digit(c) == CHOOSE v \in 0..16 :
                            v = 16 \/ c = <<"0", "1", "2", "3", "4", "5", "6",
                                            "7", "8", "9", "A", "B", "C", "D",
                                            "E", "F">>[v + 1]
        IN  IF Len(p) # 20 \/ p[1] # 1
            THEN /\ out.mac = NoneText
                 /\ out.weight = None
                 /\ out.impedance = None
            ELSE LET grams == p[11] + 256 * p[12] + 65536 * p[13]
                     imp == p[14] + 256 * p[15]
                 IN  /\ Len(out.mac) = 17
                     /\ \A j \in 0..5 :
                            /\ digit(out.mac[3 * j + 1]) < 16
                            /\ digit(out.mac[3 * j + 2]) < 16
                            /\ 16 * digit(out.mac[3 * j + 1])
                                 + digit(out.mac[3 * j + 2]) = p[7 - j]
                     /\ \A j \in 1..5 : out.mac[3 * j] = ":"
                     /\ out.weight = (IF grams > 0 THEN grams ELSE None)
                     /\ out.impedance = (IF imp # 0 THEN imp ELSE None)

\* The payload 01 ffeeddccbbaa c0a801 d00101 2c01 0101020300 has decoded to
\* the MAC AA:BB:CC:DD:EE:FF, 66.0 kg and 300 ohm.
C15_Witness ==
    /\ codec.stage = "parse_mfr"
    /\ codec.payload = GoodAdvertisement
    /\ codec.out.mac = <<"A", "A", ":", "B", "B", ":", "C", "C", ":",
                         "D", "D", ":", "E", "E", ":", "F", "F">>
    /\ codec.out.weight = 66000
    /\ codec.out.impedance = 300

\* C16: for each address every accepted sample continues the run of its
\* quantized weight (count + 1) or, when its quantized weight is not the
\* one last seen for the address, restarts it at 1; a sample without
\* impedance is flagged stable exactly when it is at least the 10th of its
\* run, and a sample with impedance is always flagged stable.
C16_StableFromTenthRepeat ==
    [][
    LET o == stab'.out
    IN  o.kind \in {"emitted", "suppressed"} =>
            LET a == o.address
                n == stab'.repeat_count[a]
                continues == /\ a \in DOMAIN stab.last_seen_q
                             /\ stab.last_seen_q[a] = o.wq
            IN  /\ n = (IF continues THEN stab.repeat_count[a] + 1 ELSE 1)
                /\ stab'.last_seen_q[a] = o.wq
                /\ o.impedance_ohm # None => o.stable
                /\ o.impedance_ohm = None => (o.stable <=> n >= 10)
    ]_vars

\* The 10th consecutive sample of 66.00 kg without impedance from the scale
\* has been flagged stable.
C16_Witness ==
    /\ stab.stage = "listening"
    /\ stab.out.kind = "emitted"
    /\ stab.out.address = ScaleAddress
    /\ stab.out.impedance_ohm = None
    /\ stab.out.stable
    /\ stab.out.wq = 3300
    /\ stab.repeat_count[ScaleAddress] = 10

\* C17: a sample whose quantized weight is the one last emitted for its
\* address is emitted only if min_emit_interval has elapsed since that
\* emission; a stable sample whose quantized weight is another one than the
\* last emitted is emitted whatever the time elapsed.
C17_CooldownAfterEmission ==
    [][
    LET o == stab'.out
    IN  (o.kind \in {"emitted", "suppressed"}
           /\ o.address \in DOMAIN stab.last_emit_q) =>
            LET a == o.address
                elapsed == o.ts - stab.last_emit_ts[a]
            IN  /\ (o.kind = "emitted" /\ o.wq = stab.last_emit_q[a]) =>
                       elapsed >= min_emit_interval
                /\ (o.stable /\ o.wq # stab.last_emit_q[a]) =>
                       o.kind = "emitted"
    ]_vars

\* A stable sample of the weight last emitted for the scale, arriving
\* within the interval, has been suppressed.
C17_Witness ==
    /\ stab.stage = "listening"
    /\ stab.out.kind = "suppressed"
    /\ stab.out.stable
    /\ stab.out.address = ScaleAddress
    /\ stab.last_emit_q[ScaleAddress] = stab.out.wq
    /\ stab.out.ts - stab.last_emit_ts[ScaleAddress] < min_emit_interval

\* C18: with emit_transients false every delivered reading is flagged
\* stable, and it carries impedance or is at least the 10th of its run.
C18_OnlyStableDelivered ==
    (stab.stage = "listening" /\ ~stab.emit_transients
       /\ stab.out.kind = "emitted") =>
        /\ stab.out.stable
        /\ \/ stab.out.impedance_ohm # None
           \/ stab.repeat_count[stab.out.address] >= 10

\* With emit_transients false a reading without impedance has been
\* delivered, flagged stable, at the 10th repeat.
C18_Witness ==
    /\ stab.stage = "listening"
    /\ ~stab.emit_transients
    /\ stab.out.kind = "emitted"
    /\ stab.out.impedance_ohm = None
    /\ stab.out.stable
    /\ stab.repeat_count[stab.out.address] = 10

\* C19: with an address filter, a sample with a payload passes the device
\* test exactly when device.address or the MAC of the frame equals the
\* filter up to the case of the letters and the separators ":", "-", ".";
\* with no filter every sample with a payload passes.
C19_AddressFilter ==
    LET o == stab.out
        same(c, d) ==
            \/ c = d
            \/ {c, d} \subseteq {":", "-", "."}
            \/ {c, d} \in {{"a", "A"}, {"b", "B"}, {"c", "C"},
                            {"d", "D"}, {"e", "E"}, {"f", "F"}}
        matches(x) ==
            /\ x # NoneText
            /\ Len(x) = Len(stab.address_filter)
            /\ \A i \in 1..Len(x) : same(x[i], stab.address_filter[i])
        device == IF o.kind = "rejected" THEN o.device ELSE o.address
        passed == o.kind \in {"emitted", "suppressed"}
                     \/ (o.kind = "rejected" /\ o.why = "weight")
        failed == o.kind = "rejected" /\ o.why = "device"
    IN  (stab.stage = "listening" /\ (passed \/ failed)) =>
            (passed <=> (stab.address_filter = NoneText
                           \/ matches(device) \/ matches(o.mac_in_frame)))

\* With the filter set, a sample reported under another address whose
\* frame carries the scale's MAC has been accepted.
C19_Witness ==
    /\ stab.stage = "listening"
    /\ stab.address_filter # NoneText
    /\ stab.out.kind = "emitted"
    /\ stab.out.address = OtherAddress
    /\ stab.out.mac_in_frame = <<"A", "A", ":", "B", "B", ":", "C", "C", ":",
                                 "D", "D", ":", "E", "E", ":", "F", "F">>

\* C20 (as claimed): when the caller's callback raises, the exception is
\* caught by the handler that invoked it and does not leave it.
C20_CallbackExceptionCaught ==
    last.op = "notify_cb_raise" => ~last.raised

\* C21: the constructor raises the configuration error exactly when it is
\* called in GATT mode (use_advertisements false) with an address that is
\* None or empty; in advertisement mode it constructs the facade with or
\* without an address.
C21_AddressRequiredInGattModeOnly ==
    facade.stage \in {"error", "ready"} =>
        /\ facade.stage = "error" <=>
               (~facade.adv_mode /\ facade.address_arg \in {NoneStr, ""})
        /\ facade.stage = "error" <=> facade.out = "ValueError"

\* The constructor was called in GATT mode with an empty address and raised.
C21_Witness ==
    /\ facade.stage = "error"
    /\ ~facade.adv_mode
    /\ facade.address_arg = ""
    /\ facade.out = "ValueError"

\* C22 (as claimed): no transport error surfaces to the caller of
\* async_start or async_stop: when the scanner fails to start or to stop,
\* the operation still ends without raising.
C22_NoTransportErrorSurfaces ==
    last.op \in {"async_start_raise", "async_stop_raise"} => ~last.raised

\* C30: within one run of the advertisement callback the configure steps
\* are issued in order, each when the previous one has completed
\* successfully: after the connect the unit-change write when the flag is
\* set and a unit is desired, else the subscription; after the write the
\* subscription; after the subscription the hardware-revision read when no
\* revision is cached, else the software-revision read; after the hardware
\* read the software read; and a step that fails ends the run.
C30_ConfigureOrder ==
    [][\A t \in Tasks :
         LET a == tasks[t].pc
             b == tasks'[t].pc
             op == last'.op
             due == unit_update_flag /\ display_unit # None
             cached == hw_version \notin {NoneStr, ""}
         IN  a # b =>
               /\ b = "writing" =>
                      a = "connecting" /\ op = "connect_ok" /\ due
               /\ b = "subscribing" =>
                      \/ a = "connecting" /\ op = "connect_ok" /\ ~due
                      \/ a = "writing" /\ op = "write_ok"
               /\ b = "readhw" =>
                      a = "subscribing" /\ op = "subscribe_ok" /\ ~cached
               /\ b = "readsw" =>
                      \/ a = "subscribing" /\ op = "subscribe_ok" /\ cached
                      \/ a = "readhw" /\ op = "read_hw_ok"
               /\ (a \in {"writing", "subscribing", "readhw", "readsw"}
                     /\ op \in {"write_fail", "subscribe_fail",
                                "read_hw_fail", "read_sw_fail"}) =>
                      b = "idle"
               /\ (a = "readsw" /\ op = "read_sw_ok") => b = "idle"]_vars

\* A run has gone through the write, the subscription and the hardware
\* read and now awaits the software read.
C30_Witness ==
    \E t \in Tasks :
        /\ tasks[t].pc = "readsw"
        /\ last.op = "read_hw_ok"
        /\ tasks[t].target \in subscribed
        /\ display_unit # None
        /\ unit_update_buff[5] = 43 - display_unit

\* C25 (as claimed): when async_stop has completed, the session is
\* Disconnected with no client handle, the transport holds no connection
\* and no subscription of it, and no connect attempt is still in flight.
C25_StopReleasesConnection ==
    last.op = "async_stop_ok" =>
        /\ connection_status = DISCONNECTED
        /\ client = None
        /\ live = {}
        /\ subscribed = {}
        /\ Establishing = {}

\* C23 (as claimed): in advertisement mode, when async_stop is over it has
\* returned without an error, the facade holds no task handle, and the task
\* it cancelled is done with its scanner stopped.
C23_StopCompletesCleanly ==
    (facade.stage = "ready" /\ facade.adv_mode
       /\ facade.out \in {"stop_returned", "stop_raised"}) =>
        /\ facade.out = "stop_returned"
        /\ facade.adv_task = None
        /\ facade.stopped # None =>
               /\ facade.stopped \in Done
               /\ ~facade.listeners[facade.stopped].scanning

\* C24 (as claimed): a listener task ends only by cancellation, and a
\* cancelled listener that had called scanner.start() has called
\* scanner.stop() and has left its backend not scanning.
C24_ScannerReleasedOnCancellation ==
    facade.stage = "ready" =>
        \A l \in Listeners :
            (facade.listeners[l].pc = "cancelled"
               /\ facade.listeners[l].start_called) =>
                /\ facade.listeners[l].stop_called
                /\ ~facade.listeners[l].scanning

\* C26: a facade in advertisement mode never starts the session's scanner,
\* never runs the session's advertisement callback and never issues a
\* transport operation: no connect call, no write, no read, no
\* subscription, whatever async_start, async_stop and the listeners do.
C26_AdvertisementModeNeverConnects ==
    (facade.stage = "ready" /\ facade.adv_mode) =>
        /\ connect_calls = 0
        /\ live = {}
        /\ subscribed = {}
        /\ ~scanning
        /\ lock = "free"
        /\ \A t \in Tasks : tasks[t] = Idle
        /\ connection_status = DISCONNECTED
        /\ client = None
        /\ last.op = "init"

\* In advertisement mode a second listener, started after the first was
\* stopped, has delivered a reading.
C26_Witness ==
    /\ facade.stage = "ready"
    /\ facade.adv_mode
    /\ facade.out = "reading"
    /\ facade.adv_task = 2
    /\ facade.listeners[1].pc = "cancelled"
    /\ facade.listeners[2].pc = "sleeping"
    /\ facade.listeners[2].scanning
    /\ connect_calls = 0

\* C27: in the measurements of a reading passed to the caller's callback,
\* from a notification or from an advertisement, every key maps to a
\* number: no metric, weight or impedance that is absent (or an impedance
\* of zero) is a key, and the impedance key never holds zero.
C27_MeasurementsHoldNumbers ==
    (metrics.stage = "computed"
       /\ metrics.source \in {"notification", "advertisement"}) =>
        /\ \A k \in DOMAIN metrics.measurements :
               metrics.measurements[k] # NoValue
        /\ \A i \in 1..Len(fields) :
               metrics.values[i] = NoValue =>
                   fields[i] \notin DOMAIN metrics.measurements
        /\ "impedance" \in DOMAIN metrics.measurements <=>
               (metrics.impedance \notin {None, 0} /\ metrics.flag = 1)
        /\ metrics.weight = None => "weight" \notin DOMAIN metrics.measurements

\* An advertisement reading with a weight and an impedance of zero was
\* delivered with the weight and the three metrics that need no impedance.
C27_Witness ==
    /\ metrics.stage = "computed"
    /\ metrics.source = "advertisement"
    /\ metrics.weight = 70140
    /\ metrics.impedance = 0
    /\ DOMAIN metrics.measurements =
           {"weight", "body_mass_index", "weight_score", "bmi_score"}

\* C28: with the weight absent the engine raises nothing and every one of
\* the 16 metrics is absent, whatever the height (zero included), the age,
\* the sex and the impedance; the merge adds no key.
C28_NoWeightNoMetrics ==
    (metrics.stage \in {"computed", "raised"} /\ metrics.weight = None) =>
        /\ metrics.stage = "computed"
        /\ \A i \in 1..Len(fields) : metrics.values[i] = NoValue
        /\ metrics.added = {}
        /\ DOMAIN metrics.measurements \subseteq {"impedance"}

\* The engine ran without a weight, with a height of zero and an impedance.
C28_Witness ==
    /\ metrics.stage = "computed"
    /\ metrics.source = "engine"
    /\ metrics.weight = None
    /\ metrics.height = 0
    /\ metrics.impedance = 520
    /\ metrics.measurements = << >>

\* C29 (as claimed): with a weight, a height, an age, a sex and a non-zero
\* impedance the engine returns all 16 metrics, with body_fat_percentage
\* in [5, 75], visceral_fat_value in [1, 30], basal_metabolic_rate in
\* [900, 2500], bone_mass at least 1 and protein_percentage at least 5.
C29_AllMetricsPresentAndClamped ==
    (metrics.stage \in {"computed", "raised"}
       /\ metrics.source = "engine"
       /\ metrics.weight # None
       /\ metrics.impedance \notin {None, 0}) =>
        /\ metrics.stage = "computed"
        /\ \A i \in 1..Len(fields) : metrics.values[i] # NoValue
        /\ metrics.measurements["body_fat_percentage"][1] \in 50..750
        /\ metrics.measurements["visceral_fat_value"][1] \in 1..30
        /\ metrics.measurements["basal_metabolic_rate"][1] \in 900..2500
        /\ metrics.measurements["bone_mass"][1] >= 100
        /\ metrics.measurements["protein_percentage"][1] >= 50

\* C31: over any number of connect/disconnect cycles the hardware revision
\* is read successfully at most once and its cached value never changes
\* afterwards (no read of it is issued once a read has succeeded), while
\* every configure sequence that gets past the hardware step issues the
\* read of the software revision.
C31_HardwareRevisionReadOnce ==
    [][/\ hw_version # NoneStr => hw_version' = hw_version
       /\ \A t \in Tasks :
            /\ (tasks[t].pc # "readhw" /\ tasks'[t].pc = "readhw")
                   => hw_version = NoneStr
            /\ (tasks[t].pc = "subscribing" /\ tasks'[t].pc # "idle")
                   => tasks'[t].pc \in {"subscribing", "readhw", "readsw"}
            /\ (tasks[t].pc = "readhw" /\ tasks'[t].pc # "idle")
                   => tasks'[t].pc \in {"readhw", "readsw"}]_vars

\* C32: a notification frame that fails decoding (wrong length, validity
\* byte 19 not 1, or wrong magic bytes) invokes no callback, raises no
\* error, and leaves the desired display unit, the pending unit-change flag
\* and the connection status unchanged.
C32_InvalidFrameDropped ==
    [][\A payload \in NotifyPayloads :
          (\/ Len(payload) # 22
           \/ Byte(payload, 19) # 1
           \/ Slice(payload, 0, 2) # <<165, 2>>
           \/ Slice(payload, 3, 5) # <<16, 0>>
           \/ Slice(payload, 6, 10) # <<1, 97, 161, 0>>)
          => \A c \in subscribed, raises \in BOOLEAN :
                 notification_handler(c, payload, raises)
                 => /\ ~last'.called
                    /\ ~last'.raised
                    /\ UNCHANGED <<display_unit, unit_update_flag,
                                   connection_status>>]_vars

\* A frame was dropped by a connected session that has a unit change
\* pending.
C32_Witness ==
    /\ last.op = "notify_dropped"
    /\ connection_status = CONNECTED
    /\ display_unit # None
    /\ unit_update_flag
    /\ last.pre_flag

\* C33 (as claimed): with emit_transients true a sample that is not stable
\* is emitted exactly when min_emit_interval has elapsed since the last
\* emission for its address and there was no emission for the address yet or
\* its quantized weight is at least min_delta_kg (one step of 0.02 kg) away
\* from the last emitted one; every emission records the quantized weight
\* and the timestamp as the last emission of the address.
C33_TransientEmitPolicy ==
    [][
    LET o == stab'.out
    IN  o.kind \in {"emitted", "suppressed"} =>
            LET a == o.address
                last_ts == Get(stab.last_emit_ts, a, 0)
                last_q == Get(stab.last_emit_q, a, None)
                steps == IF o.wq >= last_q THEN o.wq - last_q
                         ELSE last_q - o.wq
            IN  /\ (stab.emit_transients /\ ~o.stable) =>
                       (o.kind = "emitted" <=>
                            /\ o.ts - last_ts >= min_emit_interval
                            /\ (last_q = None \/ steps >= 1))
                /\ o.kind = "emitted" =>
                       /\ stab'.last_emit_q[a] = o.wq
                       /\ stab'.last_emit_ts[a] = o.ts
    ]_vars

\* C34 (as claimed): when the samples of an address go from not stable to
\* stable, or a sample is stable at another quantized weight than the
\* sample before it, or the first sample of an address is stable, a reading
\* is emitted for that sample, whatever emit_transients is and whenever the
\* address was last emitted for.
C34_StableTransitionEmits ==
    [][
    LET o == stab'.out
        p == stab.out
    IN  (o.kind \in {"emitted", "suppressed"} /\ o.stable) =>
            ((\/ o.address \notin DOMAIN stab.last_seen_q
              \/ /\ p.kind \in {"emitted", "suppressed"}
                 /\ p.address = o.address
                 /\ (~p.stable \/ p.wq # o.wq))
             => o.kind = "emitted")
    ]_vars

\* C37: a sample the advertisement handler rejects (no manufacturer payload,
\* required service missing, address-filter mismatch, invalid frame, absent
\* or zero weight) delivers nothing and changes no stabilizer state of any
\* address: repeat counts, last-seen and last-emitted weights and emission
\* timestamps stay as they are; an accepted sample changes the state of its
\* own address only.
C37_RejectedSampleChangesNothing ==
    [][
    LET o == stab'.out
        dicts == {"last_seen_q", "repeat_count", "last_emit_ts",
                  "last_emit_q"}
    IN  /\ o.kind = "rejected" =>
               \A d \in dicts : stab'[d] = stab[d]
        /\ o.kind \in {"emitted", "suppressed"} =>
               \A d \in dicts :
                   /\ DOMAIN stab'[d] \subseteq DOMAIN stab[d] \cup {o.address}
                   /\ \A b \in DOMAIN stab[d] :
                          b # o.address =>
                              b \in DOMAIN stab'[d] /\ stab'[d][b] = stab[d][b]
    ]_vars

\* A frame without weight has been rejected in the middle of a run of
\* repeats of the scale, while another device has state of its own.
C37_Witness ==
    /\ stab.stage = "listening"
    /\ stab.out.kind = "rejected"
    /\ stab.out.why = "weight"
    /\ ScaleAddress \in DOMAIN stab.repeat_count
    /\ stab.repeat_count[ScaleAddress] = 5
    /\ OtherAddress \in DOMAIN stab.last_emit_q

\* C35: metabolic_age is max(18, age + 8 - k), where k is the index of the
\* band of health_score among the 17 bands bounded by 50, 60, 65, 68, 70,
\* 73, 75, 80, 85, 88, 90, 93, 95, 97, 98, 99 (k is the number of bounds the
\* score has reached); for the age of the profile it does not increase when
\* the health score does, it is never below 18, and health_score is the
\* floor of the mean of weight_score, fat_score and bmi_score.
C35_MetabolicAgeBands ==
    (metrics.stage = "computed" /\ metrics.values[15] # NoValue) =>
        LET ws == metrics.values[12][1]
            fs == metrics.values[13][1]
            bs == metrics.values[14][1]
            hs == metrics.values[15][1]
            k == Cardinality({b \in {50, 60, 65, 68, 70, 73, 75, 80, 85, 88,
                                     90, 93, 95, 97, 98, 99} : hs >= b})
            floored(x) == IF x < 18 THEN 18 ELSE x
        IN  /\ 3 * hs <= ws + fs + bs
            /\ ws + fs + bs < 3 * hs + 3
            /\ metrics.values[16] = Value(floored(metrics.age + 8 - k))
            /\ metrics.values[16][1] >= 18
            /\ \A h \in 0..99 :
                   floored(metrics.age + 8 - age_adjustment_factor(h))
                       >= floored(metrics.age + 8
                                    - age_adjustment_factor(h + 1))

\* A reading in the top band: a health score of 99 takes 16 years off
\* age + 8.
C35_Witness ==
    /\ metrics.stage = "computed"
    /\ metrics.values[15] = Value(99)
    /\ metrics.values[16] = Value(metrics.age + 8 - 16)
    /\ metrics.values[16][1] > 18

\* C36 (as claimed): with the weight present and the impedance absent or
\* zero, the engine adds exactly body_mass_index, weight_score and bmi_score
\* to the measurements; every metric that depends on the body fat
\* percentage, fat_score, health_score and metabolic_age included, is
\* absent.
C36_WeightOnlyMetrics ==
    (metrics.stage \in {"computed", "raised"}
       /\ metrics.weight # None
       /\ metrics.impedance \in {None, 0}) =>
        /\ metrics.stage = "computed"
        /\ metrics.added = {"body_mass_index", "weight_score", "bmi_score"}
        /\ \A i \in 1..Len(fields) :
               fields[i] \in DOMAIN metrics.measurements <=>
                   fields[i] \in {"body_mass_index", "weight_score",
                                  "bmi_score"}

\* C38 (as claimed): every reading delivered to the callback in GATT mode
\* carries the hardware and the software revision of the connected device:
\* when the callback is invoked neither revision is missing, and the
\* configure sequence of the notifying connection has no revision left to
\* read, so that the software revision is not the one of an earlier
\* connection.
C38_ReadingCarriesRevisions ==
    last.called =>
        /\ hw_version # NoneStr
        /\ sw_version # NoneStr
        /\ ~\E t \in Tasks : /\ tasks[t].pc \in {"readhw", "readsw"}
                             /\ tasks[t].target \in subscribed

\* C39 (as claimed): in advertisement mode, after any sequence of
\* async_start and async_stop calls, the facade has at most one listener
\* task that is not done and at most one scanner that is scanning, and
\* every task that is not done is the one whose handle the facade holds,
\* so that a later async_stop cancels it.
C39_OneLiveListener ==
    (facade.stage = "ready" /\ facade.adv_mode) =>
        LET alive == {l \in Listeners :
                         facade.listeners[l].pc
                             \in {"created", "starting", "sleeping",
                                  "stopping"}}
        IN  /\ Cardinality(alive) <= 1
            /\ Cardinality({l \in Listeners :
                               facade.listeners[l].scanning}) <= 1
            /\ \A l \in alive : facade.adv_task = l

\* C40: an advertisement whose address is not the session's, or one that
\* arrives while the session is Connecting or Connected, changes no session
\* state (connection status, client handle, pending flag, desired unit,
\* command buffer, cached revisions), starts no task and issues no
\* transport operation.
C40_ForeignOrLateAdvertisementIgnored ==
    [][\A t \in Tasks, addr \in Addresses :
          (/\ addr # address \/ connection_status # DISCONNECTED
           /\ advertisement_callback(t, addr))
          => /\ UNCHANGED <<session, transport>>
             /\ UNCHANGED <<tasks, waiters, lock, subscribed>>]_vars

\* The scale's own advertisement has been ignored by a connected session.
C40_Witness ==
    /\ last.op = "adv_ignored"
    /\ last.arg = 1
    /\ connection_status = CONNECTED
    /\ client # None
    /\ InFlight = {}

============================================================================
